---- MODULE Spec2Model ----
(***************************************************************************)
(* Model of three parts of Glow.                                           *)
(*  - The ONNXIFI entry points (onnxifiGlow.cpp): the backend ID /         *)
(*    backend / event / graph objects the entry points allocate and        *)
(*    delete, the out-parameters they write and the status they return.    *)
(*    The host is modelled as calling the entry points in any order with   *)
(*    any handle it has been given (or NULL); a second thread may block    *)
(*    in onnxWaitEvent.                                                    *)
(*  - The operator loaders common to the ONNX and Caffe2 importers         *)
(*    (CommonOperatorLoader.h): the nodes they add to the graph G_ and     *)
(*    the names they register in nodeValueByName_.                         *)
(*  - The float kernels of libjit: pure functions of buffers and extents,  *)
(*    applied to inputs the initial state draws.                           *)
(***************************************************************************)
EXTENDS Integers, Sequences, FiniteSets, TLC

\* ------------------------------------------------------------------ bounds
MaxBackendIds == 1    \* BackendId objects the host lets the library allocate
MaxBackends   == 1    \* Backend objects
MaxEvents     == 1    \* Event objects
MaxGraphs     == 1    \* Graph objects
MaxCapacity   == 2    \* largest capacity of the backendIDs buffer
MaxInfoSize   == 8    \* largest *infoValueSize on entry (needs >= 8 for "PyTorch")
MaxWaiters    == 1    \* threads that may block in onnxWaitEvent

\* ----------------------------------------------------------------- handles
NULL == <<"NULL", 0>>

Kinds == {"ID", "BACKEND", "EVENT", "GRAPH"}

MaxOf(k) == CASE k = "ID"      -> MaxBackendIds
              [] k = "BACKEND" -> MaxBackends
              [] k = "EVENT"   -> MaxEvents
              [] k = "GRAPH"   -> MaxGraphs

HandlesOf(k) == {<<k, i>> : i \in 1..MaxOf(k)}

Handles == UNION {HandlesOf(k) : k \in Kinds}

Waiters == 1..MaxWaiters

VARIABLES
  heap,     \* [Handles -> {"unalloc", "live", "freed"}]: the objects made by new
  frees,    \* [Handles -> Nat]: how often delete was applied to each
  known,    \* handles the library has written to an out-parameter of the host
  fired,    \* [HandlesOf("EVENT") -> BOOLEAN]: Event::fired_
  ioBound,  \* [HandlesOf("GRAPH") -> BOOLEAN]: Graph::setIO has succeeded
  runs,     \* <<graph, output event>> of the run onnxRunGraph accepted last, per graph
  pc,       \* [Waiters -> record]: where each waiter thread is in onnxWaitEvent
  ub,       \* a call has executed undefined behaviour: nothing is known from here on
  ret,      \* the last ABI call: its name, arguments, out-parameters and status
  G_,       \* the nodes of the graph under construction, in creation order
  nodeValueByName_,  \* the importer's map from names to NodeValues
  loadRet,  \* the last loader call: its operator and what it returned
  kin,      \* the buffers, extents and scalars a kernel is called with
  kout      \* what each kernel called so far left in its output buffers

abiVars == <<heap, frees, known, fired, ioBound, runs, pc, ret>>
loaderVars == <<G_, nodeValueByName_, loadRet>>
kernelVars == <<kin, kout>>

vars == <<heap, frees, known, fired, ioBound, runs, pc, ub, ret,
          G_, nodeValueByName_, loadRet, kin, kout>>

\* No operator loaded, no kernel called.
LoaderIdle ==
  /\ G_ = <<>>
  /\ nodeValueByName_ = <<>>
  /\ loadRet = [op |-> "none", n |-> 0]

KernelIdle ==
  /\ kin = [kernel |-> "none"]
  /\ kout = [kernel |-> "none"]

Live(h)      == h \in Handles /\ heap[h] = "live"
Dangling(h)  == h \in Handles /\ heap[h] = "freed"

\* The lowest unallocated object of kind k: what `new` returns next.
CanNew(k) == \E h \in HandlesOf(k) : heap[h] = "unalloc"
New(k)    == CHOOSE h \in HandlesOf(k) :
               /\ heap[h] = "unalloc"
               /\ \A g \in HandlesOf(k) : heap[g] = "unalloc" => h[2] <= g[2]

\* Handles the host can pass: NULL or one it was given (live or since released).
\* A release call is tried with handles of every kind, the other calls with
\* handles of the kind they take.
HostHandles == {NULL} \cup known

HostOf(k) == {NULL} \cup {h \in known : h[1] = k}

Idle == [at |-> "idle", event |-> NULL]

\* No object allocated, no call made.
AbiIdle ==
  /\ heap = [h \in Handles |-> "unalloc"]
  /\ frees = [h \in Handles |-> 0]
  /\ known = {}
  /\ fired = [e \in HandlesOf("EVENT") |-> FALSE]
  /\ ioBound = [g \in HandlesOf("GRAPH") |-> FALSE]
  /\ runs = {}
  /\ pc = [t \in Waiters |-> Idle]
  /\ ub = FALSE
  /\ ret = [op |-> "none", status |-> "NONE"]

Init ==
  /\ AbiIdle
  /\ LoaderIdle
  /\ KernelIdle

\* ------------------------------------------------------ onnxGetBackendIDs
\* A caller-owned array of `cap` slots, not yet written.
EmptyBuffer(cap) == [i \in 1..cap |-> NULL]

\* A variant that writes the ID to every slot of the buffer.
StoreEvery(buf, v) == [i \in 1..Len(buf) |-> v]

\* backendIDs[0] = v on a buffer of the given contents: slot 1 when it exists.
StoreFirst(buf, v) == [i \in 1..Len(buf) |-> IF i = 1 THEN v ELSE buf[i]]

\* hasIDs: backendIDs is non-null; hasNum: numBackends is non-null; cap: the
\* value of *numBackends on entry, which is the capacity of backendIDs.
onnxGetBackendIDs(hasIDs, hasNum, cap) ==
  /\ ~ub
  /\ UNCHANGED <<loaderVars, kernelVars>>
  /\ IF ~hasNum THEN
       /\ ret' = [op |-> "onnxGetBackendIDs", hasIDs |-> hasIDs, hasNum |-> hasNum,
                  cap |-> cap, status |-> "INVALID_POINTER", numBackends |-> cap,
                  backendIDs |-> EmptyBuffer(cap), created |-> NULL, outOfBounds |-> FALSE]
       /\ UNCHANGED <<heap, known>>
     ELSE IF ~hasIDs THEN
       /\ ret' = [op |-> "onnxGetBackendIDs", hasIDs |-> hasIDs, hasNum |-> hasNum,
                  cap |-> cap, status |-> "FALLBACK", numBackends |-> 1,
                  backendIDs |-> EmptyBuffer(cap), created |-> NULL, outOfBounds |-> FALSE]
       /\ UNCHANGED <<heap, known>>
     ELSE
       /\ CanNew("ID")
       /\ heap' = [heap EXCEPT ![New("ID")] = "live"]
       /\ known' = IF cap >= 1 THEN known \cup {New("ID")} ELSE known
       /\ ret' = [op |-> "onnxGetBackendIDs", hasIDs |-> hasIDs, hasNum |-> hasNum,
                  cap |-> cap, status |-> "SUCCESS", numBackends |-> 1,
                  backendIDs |-> StoreFirst(EmptyBuffer(cap), New("ID")),
                  created |-> New("ID"), outOfBounds |-> (cap < 1)]
  /\ UNCHANGED <<frees, fired, ioBound, runs, pc, ub>>

GetBackendIDs ==
  \E hasIDs \in BOOLEAN, hasNum \in BOOLEAN, cap \in 0..MaxCapacity :
    onnxGetBackendIDs(hasIDs, hasNum, cap)

\* ------------------------------------------------------------ delete, release
\* `delete p` of the release calls, p being h reinterpreted as a pointer to an
\* object of kind k.  On a live object of that kind it frees the object.  On
\* anything else (an object already freed, one of another kind, an Event a
\* thread is blocked on) it is undefined behaviour: the allocator either frees
\* the block (again) and the call goes on to return SUCCESS, or it aborts the
\* process.
DeleteDefined(k, h) ==
  /\ Live(h)
  /\ h[1] = k
  /\ \A t \in Waiters : ~(pc[t].at = "waiting" /\ pc[t].event = h)

Release(op, k, invalid, h, aborts) ==
  /\ ~ub
  /\ UNCHANGED <<loaderVars, kernelVars>>
  /\ IF h = NULL THEN
       /\ ~aborts
       /\ ret' = [op |-> op, h |-> h, status |-> invalid]
       /\ UNCHANGED <<heap, frees, ub>>
     ELSE IF DeleteDefined(k, h) THEN
       /\ ~aborts
       /\ heap' = [heap EXCEPT ![h] = "freed"]
       /\ frees' = [frees EXCEPT ![h] = @ + 1]
       /\ ret' = [op |-> op, h |-> h, status |-> "SUCCESS"]
       /\ UNCHANGED ub
     ELSE IF aborts THEN
       /\ ret' = [op |-> op, h |-> h, status |-> "ABORT"]
       /\ ub' = TRUE
       /\ UNCHANGED <<heap, frees>>
     ELSE
       /\ heap' = [heap EXCEPT ![h] = "freed"]
       /\ frees' = [frees EXCEPT ![h] = @ + 1]
       /\ ret' = [op |-> op, h |-> h, status |-> "SUCCESS"]
       /\ ub' = TRUE
  /\ UNCHANGED <<known, fired, ioBound, runs, pc>>

onnxReleaseBackendID(h, aborts) ==
  Release("onnxReleaseBackendID", "ID", "INVALID_ID", h, aborts)

onnxReleaseBackend(h, aborts) ==
  Release("onnxReleaseBackend", "BACKEND", "INVALID_BACKEND", h, aborts)

ReleaseBackendID == \E h \in HostHandles, aborts \in BOOLEAN : onnxReleaseBackendID(h, aborts)

ReleaseBackend == \E h \in HostHandles, aborts \in BOOLEAN : onnxReleaseBackend(h, aborts)

\* ------------------------------------------------------ onnxGetBackendInfo
SizeofUInt64 == 8

NUL == "NUL"
Uninit == "?"

Glow    == <<"G", "l", "o", "w">>
PyTorch == <<"P", "y", "T", "o", "r", "c", "h">>
Version == <<"1", ".", "0", ".", "0">>

StringInfo == {"BACKEND_NAME", "BACKEND_VENDOR", "BACKEND_VERSION", "BACKEND_DEVICE"}
UInt64Info == {"BACKEND_MEMORY_TYPES", "BACKEND_SYNCHRONIZATION_TYPES"}
\* "BACKEND_OTHER" stands for every info type the switch has no case for.
InfoTypes  == StringInfo \cup UInt64Info \cup {"BACKEND_OTHER"}

strlen(str) == Len(str)

\* strncpy(dst, src, n): n characters, src followed by NULs; the rest of dst stays.
strncpy(dst, src, n) ==
  [i \in 1..Len(dst) |-> IF i > n THEN dst[i]
                         ELSE IF i <= Len(src) THEN src[i] ELSE NUL]

\* *(uint64_t *)dst = value: the first sizeof(uint64_t) bytes hold the value.
StoreUInt64(dst, value) ==
  [i \in 1..Len(dst) |-> IF i > SizeofUInt64 THEN dst[i] ELSE value]

\* The caller's infoValue buffer on entry: *infoValueSize bytes, none written.
InfoBuffer(hasValue, size) == IF hasValue THEN [i \in 1..size |-> Uninit] ELSE <<>>

\* A variant of setBackendInfoString that forgets the terminating NUL.
setBackendInfoStringNoNul(hasValue, size, str) ==
  LET len == strlen(str) IN
  IF ~hasValue \/ size < len
  THEN <<"FALLBACK", len, InfoBuffer(hasValue, size)>>
  ELSE <<"SUCCESS", len, strncpy(InfoBuffer(hasValue, size), str, len)>>

\* Both helpers give <<status, *infoValueSize after, infoValue after>>.
setBackendInfoString(hasValue, size, str) ==
  LET len == strlen(str) + 1 IN
  IF ~hasValue \/ size < len
  THEN <<"FALLBACK", len, InfoBuffer(hasValue, size)>>
  ELSE <<"SUCCESS", len, strncpy(InfoBuffer(hasValue, size), str, len)>>

setBackendInfoUInt64(hasValue, size, value) ==
  IF ~hasValue \/ size < SizeofUInt64
  THEN <<"FALLBACK", SizeofUInt64, InfoBuffer(hasValue, size)>>
  ELSE <<"SUCCESS", SizeofUInt64, StoreUInt64(InfoBuffer(hasValue, size), value)>>

\* The switch of onnxGetBackendInfo, reached with both pointers non-null.
BackendInfoSwitch(infoType, hasValue, size) ==
  CASE infoType = "BACKEND_NAME"    -> setBackendInfoString(hasValue, size, Glow)
    [] infoType = "BACKEND_VENDOR"  -> setBackendInfoString(hasValue, size, PyTorch)
    [] infoType = "BACKEND_VERSION" -> setBackendInfoString(hasValue, size, Version)
    [] infoType = "BACKEND_DEVICE"  -> setBackendInfoString(hasValue, size, Glow)
    [] infoType = "BACKEND_MEMORY_TYPES" ->
         setBackendInfoUInt64(hasValue, size, "MEMORY_TYPE_CPU")
    [] infoType = "BACKEND_SYNCHRONIZATION_TYPES" ->
         setBackendInfoUInt64(hasValue, size, "SYNCHRONIZATION_EVENT")
    [] OTHER -> <<"UNSUPPORTED_PARAMETER", size, InfoBuffer(hasValue, size)>>

\* hasSize: infoValueSize is non-null, and then size is *infoValueSize on entry.
onnxGetBackendInfo(backendID, infoType, hasValue, hasSize, size) ==
  /\ ~ub
  /\ UNCHANGED <<loaderVars, kernelVars>>
  /\ LET out == IF ~hasSize THEN <<"INVALID_POINTER", size, InfoBuffer(hasValue, size)>>
                ELSE IF backendID = NULL
                  THEN <<"INVALID_POINTER", size, InfoBuffer(hasValue, size)>>
                ELSE BackendInfoSwitch(infoType, hasValue, size)
     IN ret' = [op |-> "onnxGetBackendInfo", backendID |-> backendID,
                infoType |-> infoType, hasValue |-> hasValue, hasSize |-> hasSize,
                sizeIn |-> size, status |-> out[1], infoValueSize |-> out[2],
                infoValue |-> out[3]]
  /\ UNCHANGED <<heap, frees, known, fired, ioBound, runs, pc, ub>>

GetBackendInfo ==
  \E backendID \in HostOf("ID"), infoType \in InfoTypes, hasValue \in BOOLEAN,
     hasSize \in BOOLEAN, size \in 0..MaxInfoSize :
    onnxGetBackendInfo(backendID, infoType, hasValue, hasSize, size)

\* -------------------------------------------------------- onnxInitBackend
onnxInitBackend(backendID, hasOut) ==
  /\ ~ub
  /\ UNCHANGED <<loaderVars, kernelVars>>
  /\ IF ~hasOut THEN
       /\ ret' = [op |-> "onnxInitBackend", backendID |-> backendID,
                  status |-> "INVALID_POINTER", out |-> NULL]
       /\ UNCHANGED <<heap, known>>
     ELSE IF backendID = NULL THEN
       /\ ret' = [op |-> "onnxInitBackend", backendID |-> backendID,
                  status |-> "INVALID_ID", out |-> NULL]
       /\ UNCHANGED <<heap, known>>
     ELSE
       /\ CanNew("BACKEND")
       /\ heap' = [heap EXCEPT ![New("BACKEND")] = "live"]
       /\ known' = known \cup {New("BACKEND")}
       /\ ret' = [op |-> "onnxInitBackend", backendID |-> backendID,
                  status |-> "SUCCESS", out |-> New("BACKEND")]
  /\ UNCHANGED <<frees, fired, ioBound, runs, pc, ub>>

InitBackend == \E backendID \in HostOf("ID"), hasOut \in BOOLEAN : onnxInitBackend(backendID, hasOut)

\* ------------------------------------------------------------------ events
HostEvents == HostOf("EVENT")

onnxInitEvent(backend, hasOut) ==
  /\ ~ub
  /\ UNCHANGED <<loaderVars, kernelVars>>
  /\ IF ~hasOut THEN
       /\ ret' = [op |-> "onnxInitEvent", backend |-> backend,
                  status |-> "INVALID_POINTER", out |-> NULL]
       /\ UNCHANGED <<heap, known, fired>>
     ELSE IF backend = NULL THEN
       /\ ret' = [op |-> "onnxInitEvent", backend |-> backend,
                  status |-> "INVALID_BACKEND", out |-> NULL]
       /\ UNCHANGED <<heap, known, fired>>
     ELSE
       /\ CanNew("EVENT")
       /\ heap' = [heap EXCEPT ![New("EVENT")] = "live"]
       /\ fired' = [fired EXCEPT ![New("EVENT")] = FALSE]
       /\ known' = known \cup {New("EVENT")}
       /\ ret' = [op |-> "onnxInitEvent", backend |-> backend,
                  status |-> "SUCCESS", out |-> New("EVENT")]
  /\ UNCHANGED <<frees, ioBound, runs, pc, ub>>

InitEvent == \E backend \in HostOf("BACKEND"), hasOut \in BOOLEAN : onnxInitEvent(backend, hasOut)

\* Event::signal(): marks the event fired; its result tells that the event
\* had been fired before.
EventSignal(e) == [result |-> fired[e], fired |-> [fired EXCEPT ![e] = TRUE]]

\* A variant that reads the result of Event::signal() the other way round.
SignalStatusInverted(result) == IF result THEN "SUCCESS" ELSE "INVALID_STATE"

\* The status onnxSignalEvent makes of the result of Event::signal().
SignalStatus(result) == IF result THEN "INVALID_STATE" ELSE "SUCCESS"

\* Outcomes of a call that reads an Event already deleted.
UseAfterFree == {"SUCCESS", "INVALID_STATE", "ABORT"}

onnxSignalEvent(event, freed) ==
  /\ ~ub
  /\ UNCHANGED <<loaderVars, kernelVars>>
  /\ IF event = NULL THEN
       /\ freed = "SUCCESS"
       /\ ret' = [op |-> "onnxSignalEvent", event |-> event, status |-> "INVALID_EVENT",
                  before |-> FALSE]
       /\ UNCHANGED <<fired, ub>>
     ELSE IF Live(event) THEN
       /\ freed = "SUCCESS"
       /\ fired' = EventSignal(event).fired
       /\ ret' = [op |-> "onnxSignalEvent", event |-> event,
                  status |-> SignalStatus(EventSignal(event).result),
                  before |-> fired[event]]
       /\ UNCHANGED ub
     ELSE
       /\ ret' = [op |-> "onnxSignalEvent", event |-> event, status |-> freed,
                  before |-> fired[event]]
       /\ ub' = TRUE
       /\ UNCHANGED fired
  /\ UNCHANGED <<heap, frees, known, ioBound, runs, pc>>

SignalEvent == \E event \in HostEvents, freed \in UseAfterFree : onnxSignalEvent(event, freed)

\* A variant of onnxWaitEvent that returns without calling Event::wait().
onnxWaitEventNoWait(t, event, freed) ==
  /\ ~ub
  /\ UNCHANGED <<loaderVars, kernelVars>>
  /\ pc[t].at = "idle"
  /\ freed = "SUCCESS"
  /\ Live(event)
  /\ ret' = [op |-> "onnxWaitEvent", event |-> event, status |-> "SUCCESS",
             thread |-> t, blocked |-> FALSE]
  /\ UNCHANGED <<heap, frees, known, fired, ioBound, runs, pc, ub>>

\* onnxWaitEvent called by thread t.  Event::wait() returns at once when the
\* event is fired and blocks the thread otherwise.  On a deleted event the
\* call returns, blocks or aborts.
onnxWaitEvent(t, event, freed) ==
  /\ ~ub
  /\ UNCHANGED <<loaderVars, kernelVars>>
  /\ pc[t].at = "idle"
  /\ IF event = NULL THEN
       /\ freed = "SUCCESS"
       /\ ret' = [op |-> "onnxWaitEvent", event |-> event, status |-> "INVALID_EVENT",
                  thread |-> t, blocked |-> FALSE]
       /\ UNCHANGED <<pc, ub>>
     ELSE IF Live(event) THEN
       /\ freed = "SUCCESS"
       /\ IF fired[event] THEN
            /\ ret' = [op |-> "onnxWaitEvent", event |-> event, status |-> "SUCCESS",
                       thread |-> t, blocked |-> FALSE]
            /\ UNCHANGED <<pc, ub>>
          ELSE
            /\ pc' = [pc EXCEPT ![t] = [at |-> "waiting", event |-> event]]
            /\ UNCHANGED <<ret, ub>>
     ELSE
       /\ ub' = TRUE
       /\ IF freed = "INVALID_STATE" THEN
            /\ pc' = [pc EXCEPT ![t] = [at |-> "waiting", event |-> event]]
            /\ UNCHANGED ret
          ELSE
            /\ ret' = [op |-> "onnxWaitEvent", event |-> event, status |-> freed,
                       thread |-> t, blocked |-> FALSE]
            /\ UNCHANGED pc
  /\ UNCHANGED <<heap, frees, known, fired, ioBound, runs>>

WaitEvent ==
  \E t \in Waiters, event \in HostEvents, freed \in UseAfterFree :
    onnxWaitEvent(t, event, freed)

\* A thread blocked in Event::wait() returns once the event is fired.
WaitWake(t) ==
  /\ ~ub
  /\ UNCHANGED <<loaderVars, kernelVars>>
  /\ pc[t].at = "waiting"
  /\ fired[pc[t].event]
  /\ pc' = [pc EXCEPT ![t] = Idle]
  /\ ret' = [op |-> "onnxWaitEvent", event |-> pc[t].event, status |-> "SUCCESS",
             thread |-> t, blocked |-> TRUE]
  /\ UNCHANGED <<heap, frees, known, fired, ioBound, runs, ub>>

Wake == \E t \in Waiters : WaitWake(t)

onnxReleaseEventGraphStatus(h, aborts) ==
  Release("onnxReleaseEvent", "EVENT", "INVALID_GRAPH", h, aborts)

onnxReleaseEvent(h, aborts) ==
  Release("onnxReleaseEvent", "EVENT", "INVALID_EVENT", h, aborts)

ReleaseEvent == \E h \in HostHandles, aborts \in BOOLEAN : onnxReleaseEvent(h, aborts)

\* ------------------------------------------------------------------ graphs
HostGraphs == HostOf("GRAPH")

\* Graph::initGraph(): the importer lowers the model or reports why it cannot.
GraphInitGraph == {"SUCCESS", "UNSUPPORTED_OPERATOR"}

\* Graph::setIO(): binds the descriptors or reports why it cannot.
GraphSetIO == {"SUCCESS", "UNSUPPORTED_PARAMETER"}

\* hasModel, hasWeights, hasOut: onnxModel, weightDescriptors and graph are
\* non-null; modelSize is onnxModelSize; loaded is what Graph::initGraph gives.
onnxInitGraph(backend, hasModel, modelSize, hasWeights, hasOut, loaded) ==
  /\ ~ub
  /\ UNCHANGED <<loaderVars, kernelVars>>
  /\ IF ~hasModel \/ ~hasWeights \/ ~hasOut THEN
       /\ ret' = [op |-> "onnxInitGraph", backend |-> backend,
                  status |-> "INVALID_POINTER", out |-> NULL, created |-> NULL]
       /\ UNCHANGED <<heap, known, ioBound>>
     ELSE IF modelSize = 0 THEN
       /\ ret' = [op |-> "onnxInitGraph", backend |-> backend,
                  status |-> "INVALID_SIZE", out |-> NULL, created |-> NULL]
       /\ UNCHANGED <<heap, known, ioBound>>
     ELSE IF backend = NULL THEN
       /\ ret' = [op |-> "onnxInitGraph", backend |-> backend,
                  status |-> "INVALID_BACKEND", out |-> NULL, created |-> NULL]
       /\ UNCHANGED <<heap, known, ioBound>>
     ELSE
       /\ CanNew("GRAPH")
       /\ heap' = [heap EXCEPT ![New("GRAPH")] = "live"]
       /\ ioBound' = [ioBound EXCEPT ![New("GRAPH")] = FALSE]
       /\ IF loaded # "SUCCESS" THEN
            /\ ret' = [op |-> "onnxInitGraph", backend |-> backend,
                       status |-> loaded, out |-> NULL, created |-> New("GRAPH")]
            /\ known' = known
          ELSE
            /\ ret' = [op |-> "onnxInitGraph", backend |-> backend,
                       status |-> "SUCCESS", out |-> New("GRAPH"), created |-> New("GRAPH")]
            /\ known' = known \cup {New("GRAPH")}
  /\ UNCHANGED <<frees, fired, runs, pc, ub>>

InitGraph ==
  \E backend \in HostOf("BACKEND"), hasModel \in BOOLEAN, modelSize \in 0..1,
     hasWeights \in BOOLEAN, hasOut \in BOOLEAN, loaded \in GraphInitGraph :
    onnxInitGraph(backend, hasModel, modelSize, hasWeights, hasOut, loaded)

\* bound is what Graph::setIO gives on a live graph; on a deleted graph the
\* call reads freed memory and returns a status or aborts.
onnxSetGraphIO(graph, hasInputs, hasOutputs, bound, aborts) ==
  /\ ~ub
  /\ UNCHANGED <<loaderVars, kernelVars>>
  /\ IF ~hasInputs \/ ~hasOutputs THEN
       /\ ~aborts
       /\ ret' = [op |-> "onnxSetGraphIO", graph |-> graph, status |-> "INVALID_POINTER"]
       /\ UNCHANGED <<ioBound, ub>>
     ELSE IF graph = NULL THEN
       /\ ~aborts
       /\ ret' = [op |-> "onnxSetGraphIO", graph |-> graph, status |-> "INVALID_GRAPH"]
       /\ UNCHANGED <<ioBound, ub>>
     ELSE IF Live(graph) THEN
       /\ ~aborts
       /\ ioBound' = [ioBound EXCEPT ![graph] = @ \/ (bound = "SUCCESS")]
       /\ ret' = [op |-> "onnxSetGraphIO", graph |-> graph, status |-> bound]
       /\ UNCHANGED ub
     ELSE
       /\ ret' = [op |-> "onnxSetGraphIO", graph |-> graph,
                  status |-> (IF aborts THEN "ABORT" ELSE bound)]
       /\ ub' = TRUE
       /\ UNCHANGED ioBound
  /\ UNCHANGED <<heap, frees, known, fired, runs, pc>>

SetGraphIO ==
  \E graph \in HostGraphs, hasInputs \in BOOLEAN, hasOutputs \in BOOLEAN,
     bound \in GraphSetIO, aborts \in BOOLEAN :
    onnxSetGraphIO(graph, hasInputs, hasOutputs, bound, aborts)

\* A fence the host passes: no fence (a null pointer) or an onnxMemoryFenceV1.
NoFence == [tag |-> "NULL", type |-> "NULL", event |-> NULL]

FenceTags  == {"TAG_MEMORY_FENCE_V1", "TAG_OTHER"}
FenceTypes == {"SYNCHRONIZATION_EVENT", "SYNCHRONIZATION_IMPLICIT"}

Fences(events) ==
  {NoFence} \cup [tag : FenceTags, type : FenceTypes, event : events]

\* A variant that tests the type of a fence and not its tag.
FenceSupportedTypeOnly(f) == f.type = "SYNCHRONIZATION_EVENT"

\* The type and tag test onnxRunGraph applies to each of the two fences.
FenceSupported(f) == f.type = "SYNCHRONIZATION_EVENT" /\ f.tag = "TAG_MEMORY_FENCE_V1"

RunGraphStatus(graph, inputFence, outputFence) ==
  IF inputFence = NoFence \/ outputFence = NoFence THEN "INVALID_POINTER"
  ELSE IF graph = NULL THEN "INVALID_GRAPH"
  ELSE IF ~FenceSupported(inputFence) \/ ~FenceSupported(outputFence) THEN "UNSUPPORTED_TAG"
  ELSE "SUCCESS"

\* onnxRunGraph reads the fences and the graph pointer and writes nothing; no
\* kernel is started and no event is signalled.  `runs` keeps, for each graph,
\* the request accepted last.
onnxRunGraph(graph, inputFence, outputFence) ==
  /\ ~ub
  /\ UNCHANGED <<loaderVars, kernelVars>>
  /\ ret' = [op |-> "onnxRunGraph", graph |-> graph, inputFence |-> inputFence,
             outputFence |-> outputFence,
             status |-> RunGraphStatus(graph, inputFence, outputFence)]
  /\ runs' = IF RunGraphStatus(graph, inputFence, outputFence) = "SUCCESS"
             THEN {r \in runs : r[1] # graph} \cup {<<graph, outputFence.event>>}
             ELSE runs
  /\ UNCHANGED <<heap, frees, known, fired, ioBound, pc, ub>>

RunGraph ==
  \E graph \in HostGraphs, inputFence \in Fences({NULL}), outputFence \in Fences(HostEvents) :
    onnxRunGraph(graph, inputFence, outputFence)

onnxReleaseGraph(h, aborts) ==
  Release("onnxReleaseGraph", "GRAPH", "INVALID_GRAPH", h, aborts)

ReleaseGraph == \E h \in HostHandles, aborts \in BOOLEAN : onnxReleaseGraph(h, aborts)

\* ---------------------------------------------------- CommonOperatorLoader
\* A node of G_ is a record with its kind, its name, the NodeValues it reads
\* (in), the extents of its result 0 (dims) and its attributes.  A NodeValue
\* is a node (its position in G_) with a result number.  Node* R converts to
\* NodeValue(R, 0).
NodeValue(N, i) == [node |-> N, res |-> i]

\* The extents of a NodeValue: in->dims(0).
dims(G, nv) == G[nv.node].dims

RECURSIVE Product(_)
Product(s) == IF s = <<>> THEN 1 ELSE Head(s) * Product(Tail(s))

\* in->getType(0)->size(): the number of elements.
TypeSize(G, nv) == Product(dims(G, nv))

\* The weights of the model (tensors_ of ProtobufLoader): their extents and,
\* for the tensor of integers that carries a shape, their contents.
tensors_ ==
  [w |-> [dims |-> <<1, 2, 2, 6>>, raw |-> <<>>],
   m |-> [dims |-> <<4, 6>>,       raw |-> <<>>],
   a |-> [dims |-> <<2, 3>>,       raw |-> <<>>],
   b |-> [dims |-> <<3>>,          raw |-> <<>>],
   s |-> [dims |-> <<2>>,          raw |-> <<6, 4>>],
   softmax_expected |-> [dims |-> <<1, 1>>, raw |-> <<>>]]

getTensorByName(name) == tensors_[name]

\* loadOperatorName: the operator's name, or its first output's when it has
\* none.
loadOperatorName(op) == IF op.name # "" THEN op.name ELSE op.output[1]

\* A loader in progress: st.G is G_ and st.env is nodeValueByName_.
\* getNodeValueOrCreateVariableByName: the value registered under the name,
\* or else a Variable made from the weight of that name and registered under
\* it.  The result carries the value as nv.
getNodeValueOrCreateVariableByName(st, name) ==
  IF name \in DOMAIN st.env THEN
    [G |-> st.G, env |-> st.env, nv |-> st.env[name]]
  ELSE
    LET V == Len(st.G) + 1 IN
      [G   |-> Append(st.G, [kind |-> "Variable", name |-> name, in |-> <<>>,
                             dims |-> getTensorByName(name).dims]),
       env |-> (name :> NodeValue(V, 0)) @@ st.env,
       nv  |-> NodeValue(V, 0)]

\* The names a loader can resolve: registered, or weights.
Resolvable(env) == DOMAIN env \cup DOMAIN tensors_

\* G_.createX(...): appends the node; the result carries its position as R.
createNode(st, node) ==
  [G |-> Append(st.G, node), env |-> st.env, R |-> Len(st.G) + 1]

\* Result extents of the node kinds (the type inference of the graph IR).
FlattenDims(d, axis) ==
  <<Product(SubSeq(d, 1, axis)), Product(SubSeq(d, axis + 1, Len(d)))>>

TransposeDims(d, shuffle) == [i \in 1..Len(shuffle) |-> d[shuffle[i] + 1]]

SliceDims(d, axis, extent) == [i \in 1..Len(d) |-> IF i = axis + 1 THEN extent ELSE d[i]]

NCHW2NHWC == <<0, 2, 3, 1>>
NHWC2NCHW == <<0, 3, 1, 2>>

createUnary(st, kind, name, in) ==
  createNode(st, [kind |-> kind, name |-> name, in |-> <<in>>, dims |-> dims(st.G, in)])

createBinary(st, kind, name, in0, in1) ==
  createNode(st, [kind |-> kind, name |-> name, in |-> <<in0, in1>>,
                  dims |-> dims(st.G, in0)])

createFlatten(st, name, in, axis) ==
  createNode(st, [kind |-> "Flatten", name |-> name, in |-> <<in>>, axis |-> axis,
                  dims |-> FlattenDims(dims(st.G, in), axis)])

createTranspose(st, name, in, shuffle) ==
  createNode(st, [kind |-> "Transpose", name |-> name, in |-> <<in>>,
                  shuffle |-> shuffle,
                  dims |-> TransposeDims(dims(st.G, in), shuffle)])

createLocalResponseNormalization(st, name, in, halfWindow, alpha, beta, k) ==
  createNode(st, [kind |-> "LocalResponseNormalization", name |-> name,
                  in |-> <<in>>, halfWindowSize |-> halfWindow, alpha |-> alpha,
                  beta |-> beta, k |-> k, dims |-> dims(st.G, in)])

createBroadcast(st, name, in, shape, axis) ==
  createNode(st, [kind |-> "Broadcast", name |-> name, in |-> <<in>>,
                  axis |-> axis, dims |-> shape])

createReshape(st, name, in, shape) ==
  createNode(st, [kind |-> "Reshape", name |-> name, in |-> <<in>>, dims |-> shape])

\* createSplit: one Slice node per output, in order; the result carries the
\* position of the first as R.  Without explicit sizes the axis is cut evenly.
RECURSIVE createSlices(_, _, _, _, _, _, _)
createSlices(G, name, in, d, axis, split, i) ==
  IF i > Len(split) THEN G
  ELSE createSlices(Append(G, [kind |-> "Slice", name |-> name, in |-> <<in>>,
                               part |-> i - 1,
                               dims |-> SliceDims(d, axis, split[i])]),
                    name, in, d, axis, split, i + 1)

createSplit(st, name, in, outputNum, axis, split) ==
  LET d     == dims(st.G, in)
      sizes == IF split = <<>> THEN [i \in 1..outputNum |-> d[axis + 1] \div outputNum]
               ELSE split
  IN [G |-> createSlices(st.G, name, in, d, axis, sizes, 1), env |-> st.env,
      R |-> Len(st.G) + 1]

\* addNodeAsOutput: registers result i of R under the i-th output name, for
\* every output name; of a name listed twice the later position stays.
Positions(op, n) == {i \in 1..Len(op.output) : op.output[i] = n}

Last(S) == CHOOSE i \in S : \A j \in S : j <= i

OutputNames(op) == {op.output[i] : i \in 1..Len(op.output)}

addNodeAsOutputFirstOnly(env, op, R) ==
  (op.output[1] :> NodeValue(R, 0)) @@ env

addNodeAsOutput(env, op, R) ==
  [n \in DOMAIN env \cup OutputNames(op) |->
     IF n \in OutputNames(op) THEN NodeValue(R, Last(Positions(op, n)) - 1)
     ELSE env[n]]

\* nodeValueByName_[name] = nv
Register(env, name, nv) == (name :> nv) @@ env

\* The loaders.  Each takes the loader state st = [G, env] and gives the
\* state it leaves.
Loaded(G, env) == [G |-> G, env |-> env]

loadRelu(st, op, dict) ==
  LET in == getNodeValueOrCreateVariableByName(st, op.input[1])
      R  == createUnary(in, "RELU", loadOperatorName(op), in.nv)
  IN Loaded(R.G, addNodeAsOutput(R.env, op, R.R))

loadSigmoid(st, op, dict) ==
  LET in == getNodeValueOrCreateVariableByName(st, op.input[1])
      S  == createUnary(in, "Sigmoid", loadOperatorName(op), in.nv)
  IN Loaded(S.G, addNodeAsOutput(S.env, op, S.R))

loadSum(st, op, dict) ==
  LET in0  == getNodeValueOrCreateVariableByName(st, op.input[1])
      in1  == getNodeValueOrCreateVariableByName(in0, op.input[2])
      node == createBinary(in1, "Add", loadOperatorName(op), in0.nv, in1.nv)
  IN Loaded(node.G, addNodeAsOutput(node.env, op, node.R))

loadSoftmax(st, op, dict) ==
  LET softmaxExpected == getNodeValueOrCreateVariableByName(st, "softmax_expected")
      in      == getNodeValueOrCreateVariableByName(softmaxExpected, op.input[1])
      flatten == createFlatten(in, "flatten", in.nv, 1)
      node    == createNode(flatten,
                   [kind |-> "SoftMax", name |-> loadOperatorName(op),
                    in |-> <<NodeValue(flatten.R, 0), softmaxExpected.nv>>,
                    dims |-> flatten.G[flatten.R].dims])
  IN Loaded(node.G, addNodeAsOutput(node.env, op, node.R))

loadLRN(st, op, dict) ==
  LET opName == loadOperatorName(op)
      in   == getNodeValueOrCreateVariableByName(st, op.input[1])
      tr   == createTranspose(in, opName, in.nv, NCHW2NHWC)
      node == createLocalResponseNormalization(tr, opName, NodeValue(tr.R, 0),
                dict["size"] \div 2, dict["alpha"], dict["beta"], dict["bias"])
      N    == createTranspose(node, opName, NodeValue(node.R, 0), NHWC2NCHW)
  IN Loaded(N.G, Register(N.env, op.output[1], NodeValue(N.R, 0)))

DefaultAxisSwapped(rank0, rank1) == rank1 - rank0

\* The axis loadArithmetic hands to createBroadcast when none is given: the
\* difference of the ranks, computed in size_t and narrowed to int, which is
\* the difference.
DefaultAxis(rank0, rank1) == rank0 - rank1

loadArithmetic(typeName, st, op, dict, broadcast) ==
  LET opName == loadOperatorName(op)
      in0  == getNodeValueOrCreateVariableByName(st, op.input[1])
      in1  == getNodeValueOrCreateVariableByName(in0, op.input[2])
      attr == IF "axis" \in DOMAIN dict THEN dict["axis"] ELSE -1
      axis == IF attr = -1
              THEN DefaultAxis(Len(dims(in1.G, in0.nv)), Len(dims(in1.G, in1.nv)))
              ELSE attr
      bc   == createBroadcast(in1, opName, in1.nv, dims(in1.G, in0.nv), axis)
      G1       == IF broadcast THEN bc.G ELSE in1.G
      finalIn1 == IF broadcast THEN NodeValue(bc.R, 0) ELSE in1.nv
      node == createBinary(Loaded(G1, in1.env), typeName, opName, in0.nv, finalIn1)
  IN Loaded(node.G, addNodeAsOutput(node.env, op, node.R))

RECURSIVE RegisterSlices(_, _, _, _)
RegisterSlices(env, op, first, i) ==
  IF i > Len(op.output) THEN env
  ELSE RegisterSlices(Register(env, op.output[i], NodeValue(first + i - 1, 0)),
                      op, first, i + 1)

loadSplit(st, op, dict) ==
  LET in    == getNodeValueOrCreateVariableByName(st, op.input[1])
      axis  == IF "axis" \in DOMAIN dict THEN dict["axis"] ELSE 0
      split == IF "split" \in DOMAIN dict THEN dict["split"] ELSE <<>>
      outputs == createSplit(in, loadOperatorName(op), in.nv, Len(op.output), axis, split)
  IN Loaded(outputs.G, RegisterSlices(outputs.env, op, outputs.R, 1))

loadFlatten(st, op, dict) ==
  LET in   == getNodeValueOrCreateVariableByName(st, op.input[1])
      axis == IF "axis" \in DOMAIN dict THEN dict["axis"] ELSE 1
      node == createFlatten(in, loadOperatorName(op), in.nv, axis)
  IN Loaded(node.G, addNodeAsOutput(node.env, op, node.R))

\* NodeValue(in, 0): in converts to its node, the result number becomes 0.
loadDropout(st, op, dict) ==
  LET in == getNodeValueOrCreateVariableByName(st, op.input[1])
  IN Loaded(in.G, Register(in.env, op.output[1], NodeValue(in.nv.node, 0)))

\* loadReshape with a "shape" attribute.  First loop: an entry 0 becomes the
\* input's extent at that position (past the input's rank the read is out of
\* bounds and gives junk); product is the product of the entries other than
\* -1.  Second loop: an entry -1 becomes size / product.
KeepZeros(protoDims, oldDim, junk) ==
  [i \in 1..Len(protoDims) |->
     IF protoDims[i] = 0
     THEN (IF i <= Len(oldDim) THEN oldDim[i] ELSE junk)
     ELSE protoDims[i]]

ReadsPastRank(protoDims, oldDim) ==
  \E i \in 1..Len(protoDims) : protoDims[i] = 0 /\ i > Len(oldDim)

IsKnown(x) == x # -1

ProductOfKnown(protoDims) == Product(SelectSeq(protoDims, IsKnown))

InferDimsUndivided(protoDims, size) ==
  [i \in 1..Len(protoDims) |-> IF protoDims[i] = -1 THEN size ELSE protoDims[i]]

InferDims(protoDims, size) ==
  [i \in 1..Len(protoDims) |->
     IF protoDims[i] = -1 THEN size \div ProductOfKnown(protoDims) ELSE protoDims[i]]

loadReshape(st, op, dict, junk) ==
  LET in == getNodeValueOrCreateVariableByName(st, op.input[1])
      newDim == IF "shape" \in DOMAIN dict
                THEN InferDims(KeepZeros(dict["shape"], dims(in.G, in.nv), junk),
                               TypeSize(in.G, in.nv))
                ELSE getTensorByName(op.input[2]).raw
      node == createReshape(in, loadOperatorName(op), in.nv, newDim)
  IN Loaded(node.G, Register(node.env, op.output[1], NodeValue(node.R, 0)))

Arithmetic == {"Mul", "Add", "Sub", "Div"}

\* The end of tryLoadCommonOperator: no branch took the type name.
UnsupportedAccepted(st) == [result |-> TRUE, G |-> st.G, env |-> st.env]

Unsupported(st) == [result |-> FALSE, G |-> st.G, env |-> st.env]

tryLoadCommonOperator(typeName, st, op, dict, broadcast, junk) ==
  LET done(s) == [result |-> TRUE, G |-> s.G, env |-> s.env] IN
  CASE typeName = "Relu"     -> done(loadRelu(st, op, dict))
    [] typeName = "Sigmoid"  -> done(loadSigmoid(st, op, dict))
    [] typeName = "Sum"      -> done(loadSum(st, op, dict))
    [] typeName = "Softmax"  -> done(loadSoftmax(st, op, dict))
    [] typeName = "LRN"      -> done(loadLRN(st, op, dict))
    [] typeName \in Arithmetic -> done(loadArithmetic(typeName, st, op, dict, broadcast))
    [] typeName = "Split"    -> done(loadSplit(st, op, dict))
    [] typeName = "Reshape"  -> done(loadReshape(st, op, dict, junk))
    [] typeName = "Flatten"  -> done(loadFlatten(st, op, dict))
    [] typeName = "Dropout"  -> done(loadDropout(st, op, dict))
    [] OTHER                 -> Unsupported(st)

\* The extents the name resolves to, before the loader has resolved it.
DimsOfName(name) ==
  IF name \in DOMAIN nodeValueByName_ THEN dims(G_, nodeValueByName_[name])
  ELSE getTensorByName(name).dims

\* One call of tryLoadCommonOperator on the importer's state.  A Reshape
\* whose shape has a 0 past the input's rank reads out of bounds: the call
\* aborts or goes on with junk for the extent.
TryLoad(typeName, op, dict, broadcast, junk, aborts) ==
  /\ ~ub
  /\ LET r == tryLoadCommonOperator(typeName, Loaded(G_, nodeValueByName_), op,
                                    dict, broadcast, junk)
         pastRank == /\ typeName = "Reshape"
                     /\ "shape" \in DOMAIN dict
                     /\ ReadsPastRank(dict["shape"], DimsOfName(op.input[1]))
         call == [op |-> "tryLoadCommonOperator", typeName |-> typeName,
                  operator |-> op, dict |-> dict, broadcast |-> broadcast,
                  n |-> loadRet.n + 1]
     IN /\ ~pastRank => (junk = 1 /\ ~aborts)
        /\ IF aborts THEN
             /\ loadRet' = call @@ [result |-> "abort"]
             /\ UNCHANGED <<G_, nodeValueByName_>>
           ELSE
             /\ loadRet' = call @@ [result |-> r.result]
             /\ G_' = r.G
             /\ nodeValueByName_' = r.env
        /\ ub' = pastRank
  /\ UNCHANGED <<abiVars, kernelVars>>

\* The operators the importer is given are well formed: they have the inputs
\* their loader reads, the attributes it reads unconditionally, names that
\* resolve, and tensors of a rank their nodes accept.
MaxLoads    == 2    \* operators loaded into one graph
MaxOutputs  == 2    \* output names one operator declares
MaxShapeLen == 2    \* entries of a Reshape "shape" attribute
MaxAxis     == 1    \* largest explicit "axis" attribute of an arithmetic operator

Supported == {"Relu", "Sigmoid", "Sum", "Softmax", "LRN", "Split", "Reshape",
              "Flatten", "Dropout"} \cup Arithmetic

TypeNames == Supported \cup {"Transpose", "relu", "Conv"}

OutNameSeq == <<"y", "z", "u", "v">>

OutputLists ==
  {SubSeq(OutNameSeq, 1, k) : k \in 1..MaxOutputs} \cup
  {<<OutNameSeq[k]>> : k \in 1..MaxOutputs}

Operator(inputs, outputs) == [name |-> "", input |-> inputs, output |-> outputs]

Binary == Arithmetic \cup {"Sum"}

\* A dictionary each loader accepts.
DictsOf(typeName) ==
  CASE typeName = "LRN" ->
         {[size |-> 5, alpha |-> "alpha", beta |-> "beta", bias |-> "bias"]}
    [] typeName = "Reshape" -> {[shape |-> <<0, -1>>], <<>>}
    [] typeName = "Split"   -> {[axis |-> 1]}
    [] OTHER -> {<<>>}

InputNames == {"w"} \cup DOMAIN nodeValueByName_

InputsOf(typeName, dict) ==
  IF typeName \in Binary THEN {<<i, j>> : i, j \in InputNames}
  ELSE IF typeName = "Reshape" /\ "shape" \notin DOMAIN dict
       THEN {<<i, "s">> : i \in InputNames}
  ELSE IF typeName = "LRN" THEN {<<i>> : i \in {j \in InputNames : Len(DimsOfName(j)) = 4}}
  ELSE IF typeName \in Supported THEN {<<i>> : i \in InputNames}
  ELSE {<<"w">>}

\* The importer loads the next operator of the model.
LoadOperator ==
  /\ loadRet.n < MaxLoads
  /\ \E typeName \in TypeNames : \E dict \in DictsOf(typeName) :
       \E inputs \in InputsOf(typeName, dict), outputs \in OutputLists :
         TryLoad(typeName, Operator(inputs, outputs), dict, TRUE, 1, FALSE)

ShapeEntries == {-1, 0, 4, 5, 6}

Shapes == UNION {[1..k -> ShapeEntries] : k \in 1..MaxShapeLen}

Garbage == {1, 7}

\* The first operator of the model is a Reshape with a "shape" attribute.
LoadReshapeShapes ==
  /\ loadRet.n = 0
  /\ \E input \in {"m", "a", "b", "w"}, outputs \in OutputLists, shape \in Shapes,
        junk \in Garbage, aborts \in BOOLEAN :
       TryLoad("Reshape", Operator(<<input>>, outputs), [shape |-> shape], TRUE,
               junk, aborts)

AxisDicts == {<<>>} \cup {[axis |-> x] : x \in -1..MaxAxis}

\* The first operator of the model is an arithmetic operator; the importer
\* derived from the loader decides whether it broadcasts.
LoadArithmeticAxes ==
  /\ loadRet.n = 0
  /\ \E typeName \in Arithmetic, in0 \in {"m", "a", "b", "w"}, in1 \in {"m", "a", "b", "w"},
        outputs \in OutputLists, dict \in AxisDicts, broadcast \in BOOLEAN :
       TryLoad(typeName, Operator(<<in0, in1>>, outputs), dict, broadcast, 1, FALSE)

\* ------------------------------------------------------------------ libjit
\* A buffer is the sequence of its elements; the element at offset i of the
\* code is element i + 1 of the sequence.  Floats are modelled by integers
\* (and quotients by fractions), on which the sums of the kernels are exact.
MaxExtent      == 2    \* largest height and width of a tensor
MaxFilter      == 3    \* largest filter (kernel) size
MaxOutChannels == 5    \* largest number of output channels of a convolution

libjit_getXYZW(d, x, y, z, w) ==
  (x * d[2] * d[3] * d[4]) + (y * d[3] * d[4]) + (z * d[4]) + w

libjit_getXYZ(d, x, y, z) == (x * d[2] * d[3]) + (y * d[3]) + z

libjit_getXY(d, x, y) == (x * d[2]) + y

\* The sequences of ss, all of length m, one after the other.
Concat(ss, m) ==
  [i \in 1..(Len(ss) * m) |-> ss[((i - 1) \div m) + 1][((i - 1) % m) + 1]]

\* The iterations of nested loops `for c1 < e[1] ... for ck < e[k]`, in
\* order: iteration j has the counters of j - 1 written in the mixed radix e.
Loops(e) ==
  [j \in 1..Product(e) |->
     [i \in 1..Len(e) |-> ((j - 1) \div Product(SubSeq(e, i + 1, Len(e)))) % e[i]]]

\* buf[i] as an rvalue: past the end of the buffer the read is out of bounds
\* and gives junk.
Load(buf, i, junk) == IF i < Len(buf) THEN buf[i + 1] ELSE junk

\* The stores `buf[i] = v` of a sequence of <<i, v>>, in order: an element
\* holds what the last store to it stored.  A store past the end of the
\* buffer leaves the buffer as it is and writes outside it.
Store(buf, writes) ==
  [e \in 1..Len(buf) |->
     LET to == {k \in 1..Len(writes) : writes[k][1] = e - 1}
     IN IF to = {} THEN buf[e] ELSE writes[Last(to)][2]]

WritesOutside(buf, writes) == \E k \in 1..Len(writes) : writes[k][1] >= Len(buf)

RECURSIVE Sum(_)
Sum(s) == IF s = <<>> THEN 0 ELSE Head(s) + Sum(Tail(s))

\* The in-bounds elements of the filter window whose corner is <<x, y>>: the
\* iterations <<fx, fy>> the kernels do not skip, in order.
Window(inWdims, filterSize, x, y) ==
  SelectSeq(Loops(<<filterSize, filterSize>>),
            LAMBDA f : ~(x + f[1] < 0 \/ y + f[2] < 0 \/ x + f[1] >= inWdims[2]
                         \/ y + f[2] >= inWdims[3]))

\* The sum one output element of the convolution gets: over the window and
\* the input channels, filter times input, plus the bias.
ConvSum(k, n, d, ax, ay, junk) ==
  LET x == (0 - k.pad) + ax * k.stride
      y == (0 - k.pad) + ay * k.stride
      w == Window(k.inWdims, k.filterSize, x, y)
      term(f, fd) ==
        Load(k.filterW, libjit_getXYZW(k.filterWdims, d, f[1], f[2], fd), junk) *
        k.inW[libjit_getXYZW(k.inWdims, n, x + f[1], y + f[2], fd) + 1]
  IN Sum(Concat([j \in 1..Len(w) |->
                   [c \in 1..k.inWdims[4] |-> term(w[j], c - 1)]], k.inWdims[4]))
     + Load(k.biasW, d, junk)

\* libjit_convolution_f: the output buffer it leaves.
libjit_convolution_f(k) ==
  LET its == Loops(<<k.inWdims[1], k.outWdims[4], k.outWdims[2], k.outWdims[3]>>)
      writes == [j \in 1..Len(its) |->
                   LET n == its[j][1]  d == its[j][2]  ax == its[j][3]  ay == its[j][4]
                   IN <<libjit_getXYZW(k.outWdims, n, ax, ay, d),
                        ConvSum(k, n, d, ax, ay, 0)>>]
  IN [outW |-> Store(k.outW, writes), outside |-> WritesOutside(k.outW, writes)]

\* libjit_convolution_f_unroll_k4: the d loop steps by 4 and each iteration
\* computes and stores the channels d, d + 1, d + 2 and d + 3.
UnrolledWrites(k, junk) ==
  LET its == Loops(<<k.inWdims[1], (k.outWdims[4] + 3) \div 4, k.outWdims[2],
                     k.outWdims[3]>>)
      four(n, d, ax, ay) ==
        [u \in 1..4 |-> <<libjit_getXYZW(k.outWdims, n, ax, ay, d + u - 1),
                          ConvSum(k, n, d + u - 1, ax, ay, junk)>>]
  IN Concat([j \in 1..Len(its) |->
               four(its[j][1], 4 * its[j][2], its[j][3], its[j][4])], 4)

libjit_convolution_f_unroll_k4(k, junk) ==
  [outW    |-> Store(k.outW, UnrolledWrites(k, junk)),
   outside |-> WritesOutside(k.outW, UnrolledWrites(k, junk))]

\* The inputs of the kernels.  Extents are what the compiler hands the
\* kernels: the output extent follows from the input extent, the filter
\* size, the stride and the pad, and the pad is smaller than the filter.
OutExtent(in, filterSize, stride, pad) == (in + 2 * pad - filterSize) \div stride + 1

Patterns == {<<a, b>> : a, b \in 0..2}

\* A buffer of len elements among -1, 0, 1: constant, or varying with the offset.
Fill(p, len) == [i \in 1..len |-> ((p[1] * i + p[2]) % 3) - 1]

Zeros(len) == [i \in 1..len |-> 0]

Strides == {1, 2}

Geometries ==
  {g \in [h : 1..MaxExtent, w : 1..MaxExtent, filterSize : 1..MaxFilter,
          stride : Strides, pad : 0..(MaxFilter - 1)] :
     /\ g.pad < g.filterSize
     /\ g.filterSize <= g.h + 2 * g.pad
     /\ g.filterSize <= g.w + 2 * g.pad}

ConvInput(g, inC, outC, pIn, pFilter, pBias) ==
  LET oh == OutExtent(g.h, g.filterSize, g.stride, g.pad)
      ow == OutExtent(g.w, g.filterSize, g.stride, g.pad)
  IN [kernel      |-> "convolution",
      inWdims     |-> <<1, g.h, g.w, inC>>,
      outWdims    |-> <<1, oh, ow, outC>>,
      filterWdims |-> <<outC, g.filterSize, g.filterSize, inC>>,
      biasWdims   |-> <<outC>>,
      filterSize  |-> g.filterSize, stride |-> g.stride, pad |-> g.pad,
      inW     |-> Fill(pIn, g.h * g.w * inC),
      filterW |-> Fill(pFilter, outC * g.filterSize * g.filterSize * inC),
      biasW   |-> Fill(pBias, outC),
      outW    |-> Zeros(oh * ow * outC)]

ConvInputs ==
  {ConvInput(g, inC, outC, pIn, pFilter, <<0, 2>>) :
     g \in {x \in Geometries : x.h = x.w}, inC \in {1, 2}, outC \in 1..MaxOutChannels,
     pIn \in {<<0, 2>>, <<1, 0>>}, pFilter \in {<<0, 2>>, <<1, 1>>}}

\* What the last kernel left, added to what the kernels before it left.
Called(kernel) == kernel \in DOMAIN kout

Return(kernel, result) == [kernel |-> kernel] @@ (kernel :> result) @@ kout

Convolution ==
  /\ ~ub
  /\ kin.kernel = "convolution"
  /\ ~Called("libjit_convolution_f")
  /\ kout' = Return("libjit_convolution_f", libjit_convolution_f(kin))
  /\ UNCHANGED <<abiVars, ub, loaderVars, kin>>

\* Past the last output channel the unrolled kernel reads the filter and the
\* bias out of bounds, which gives junk, and a store past the end of the
\* output buffer is undefined behaviour.
ConvolutionUnrolled ==
  /\ ~ub
  /\ kin.kernel = "convolution"
  /\ ~Called("libjit_convolution_f_unroll_k4")
  /\ \E junk \in {0, 1} :
       LET r == libjit_convolution_f_unroll_k4(kin, junk) IN
         /\ kout' = Return("libjit_convolution_f_unroll_k4", r)
         /\ ub' = r.outside
  /\ UNCHANGED <<abiVars, loaderVars, kin>>

\* libjit_transpose_f.  SC, the source coordinate of the output coordinate c:
\* the assignments SC[shuffle[i]] = c[i], in order.
SourceCoordinateUnshuffled(shuffle, c) == c

SourceCoordinate(shuffle, c) ==
  [p \in 1..Len(c) |-> c[Last({i \in 1..Len(shuffle) : shuffle[i] = p - 1})]]

Offset(d, c) ==
  CASE Len(d) = 4 -> libjit_getXYZW(d, c[1], c[2], c[3], c[4])
    [] Len(d) = 3 -> libjit_getXYZ(d, c[1], c[2], c[3])
    [] Len(d) = 2 -> libjit_getXY(d, c[1], c[2])

libjit_transpose_f(inW, outW, idim, odim, shuffle, numDims) ==
  IF numDims \in {2, 3, 4} THEN
    LET its == Loops(SubSeq(odim, 1, numDims))
    IN Store(outW, [j \in 1..Len(its) |->
                      <<Offset(odim, its[j]),
                        Load(inW, Offset(idim, SourceCoordinate(shuffle, its[j])), 0)>>])
  ELSE outW

\* The permutations of 0..n-1, as shuffles.
Shuffles(n) == {s \in [1..n -> 0..(n - 1)] : \A p \in 0..(n - 1) : \E i \in 1..n : s[i] = p}

Iota(len) == [i \in 1..len |-> i]

TransposeInputs ==
  UNION {{[kernel |-> "transpose", numDims |-> n, idim |-> idim, shuffle |-> s,
           odim |-> [i \in 1..n |-> idim[s[i] + 1]],
           inW |-> Iota(Product(idim)), outW |-> Zeros(Product(idim))] :
            idim \in [1..n -> 1..MaxExtent], s \in Shuffles(n)} : n \in {2, 3, 4}}

\* The shuffle that undoes s.
InverseShuffle(s) == [i \in 1..Len(s) |-> (CHOOSE j \in 1..Len(s) : s[j] = i - 1) - 1]

Transpose ==
  /\ ~ub
  /\ kin.kernel = "transpose"
  /\ ~Called("libjit_transpose_f")
  /\ kout' = Return("libjit_transpose_f",
                    [outW |-> libjit_transpose_f(kin.inW, kin.outW, kin.idim, kin.odim,
                                                 kin.shuffle, kin.numDims)])
  /\ UNCHANGED <<abiVars, ub, loaderVars, kin>>

\* The transposed buffer is transposed again, with the inverse shuffle.
TransposeBack ==
  /\ ~ub
  /\ Called("libjit_transpose_f")
  /\ ~Called("back")
  /\ kout' = Return("back",
                    [outW |-> libjit_transpose_f(kout["libjit_transpose_f"].outW, kin.outW,
                                                 kin.odim, kin.idim,
                                                 InverseShuffle(kin.shuffle), kin.numDims)])
  /\ UNCHANGED <<abiVars, ub, loaderVars, kin>>

\* Max pooling.  The scan of one window: max starts as 0 with first set, and
\* an in-bounds element takes over when first is set or it is >= max.
TakesOverStrictly(val, max) == val > max

TakesOver(val, max) == val >= max

RECURSIVE MaxScan(_, _, _, _, _, _)
MaxScan(k, n, z, x, y, w) ==
  IF w = <<>> THEN [first |-> TRUE, max |-> 0, maxX |-> x, maxY |-> y]
  ELSE LET before == MaxScan(k, n, z, x, y, SubSeq(w, 1, Len(w) - 1))
           ox  == x + w[Len(w)][1]
           oy  == y + w[Len(w)][2]
           val == k.inW[libjit_getXYZW(k.inWdims, n, ox, oy, z) + 1]
       IN IF before.first \/ TakesOver(val, before.max)
          THEN [first |-> FALSE, max |-> val, maxX |-> ox, maxY |-> oy]
          ELSE before

\* What the scan of the window of output element <<n, ax, ay, z>> leaves.
PoolScan(k, n, ax, ay, z) ==
  LET x == (0 - k.pad) + ax * k.stride
      y == (0 - k.pad) + ay * k.stride
  IN MaxScan(k, n, z, x, y, Window(k.inWdims, k.filterSize, x, y))

libjit_pool_max_f(k) ==
  LET its == Loops(<<k.outWdims[1], k.inWdims[4], k.outWdims[2], k.outWdims[3]>>)
  IN [outW |-> Store(k.outW,
        [j \in 1..Len(its) |->
           <<libjit_getXYZW(k.outWdims, its[j][1], its[j][3], its[j][4], its[j][2]),
             PoolScan(k, its[j][1], its[j][3], its[j][4], its[j][2]).max>>])]

libjit_pool_max_xy_f(k) ==
  LET its == Loops(<<k.outWdims[1], k.outWdims[4], k.outWdims[2], k.outWdims[3]>>)
      at(j)   == libjit_getXYZW(k.outWdims, its[j][1], its[j][3], its[j][4], its[j][2])
      scan(j) == PoolScan(k, its[j][1], its[j][3], its[j][4], its[j][2])
  IN [outW |-> Store(k.outW, [j \in 1..Len(its) |-> <<at(j), scan(j).max>>]),
      inXY |-> Store(k.inXY,
                 Concat([j \in 1..Len(its) |->
                           << <<2 * at(j), scan(j).maxX>>,
                              <<2 * at(j) + 1, scan(j).maxY>> >>], 2))]

GradTargetSwapped(k, n, maxX, maxY, z) == libjit_getXYZW(k.inWdims, n, maxY, maxX, z)

\* The element of inG that receives the df of an output element.
GradTarget(k, n, maxX, maxY, z) == libjit_getXYZW(k.inWdims, n, maxX, maxY, z)

\* libjit_pool_max_xy_grad_f.  For each n and z, in order: the stores of 0.0
\* that clear the slice of inG, then one `inG[...] += df` per output element.
GradSteps(k, outG, inXY) ==
  LET nz    == Loops(<<k.outWdims[1], k.outWdims[4]>>)
      xy    == Loops(<<k.inWdims[2], k.inWdims[3]>>)
      axy   == Loops(<<k.outWdims[2], k.outWdims[3]>>)
      clear(n, z) ==
        [j \in 1..Len(xy) |->
           [add |-> FALSE, at |-> libjit_getXYZW(k.inWdims, n, xy[j][1], xy[j][2], z),
            df |-> 0]]
      accumulate(n, z) ==
        [j \in 1..Len(axy) |->
           LET o == libjit_getXYZW(k.outWdims, n, axy[j][1], axy[j][2], z)
           IN [add |-> TRUE,
               at  |-> GradTarget(k, n, inXY[2 * o + 1], inXY[2 * o + 2], z),
               df  |-> outG[o + 1]]]
  IN Concat([j \in 1..Len(nz) |-> clear(nz[j][1], nz[j][2]) \o accumulate(nz[j][1], nz[j][2])],
            Len(xy) + Len(axy))

\* An element of inG after the steps: what it held, or 0.0 after the last
\* clearing store, plus every df added to it since.
libjit_pool_max_xy_grad_f(k, inG, outG, inXY) ==
  LET steps == GradSteps(k, outG, inXY) IN
  [e \in 1..Len(inG) |->
     LET clears == {j \in 1..Len(steps) : ~steps[j].add /\ steps[j].at = e - 1}
         since  == IF clears = {} THEN 0 ELSE Last(clears)
         added  == SelectSeq([j \in 1..Len(steps) |->
                                IF j > since /\ steps[j].add /\ steps[j].at = e - 1
                                THEN steps[j].df ELSE 0],
                             LAMBDA v : v # 0)
     IN (IF clears = {} THEN inG[e] ELSE 0) + Sum(added)]

filterAreaUnsquared(filterSize) == filterSize

filterArea(filterSize) == filterSize * filterSize

\* libjit_pool_avg_f: the sum over the in-bounds window, divided by
\* filterArea; the quotient is the fraction <<sum, filterArea>>.
libjit_pool_avg_f(k) ==
  LET area == filterArea(k.filterSize)
      its == Loops(<<k.outWdims[1], k.inWdims[4], k.outWdims[2], k.outWdims[3]>>)
      sum(n, z, ax, ay) ==
        LET x == (0 - k.pad) + ax * k.stride
            y == (0 - k.pad) + ay * k.stride
            w == Window(k.inWdims, k.filterSize, x, y)
        IN Sum([j \in 1..Len(w) |->
                  k.inW[libjit_getXYZW(k.inWdims, n, x + w[j][1], y + w[j][2], z) + 1]])
  IN [outW |-> Store(k.outW,
        [j \in 1..Len(its) |->
           <<libjit_getXYZW(k.outWdims, its[j][1], its[j][3], its[j][4], its[j][2]),
             <<sum(its[j][1], its[j][2], its[j][3], its[j][4]), area>> >>])]

PoolInputs ==
  {LET oh == OutExtent(g.h, g.filterSize, g.stride, g.pad)
       ow == OutExtent(g.w, g.filterSize, g.stride, g.pad)
   IN [kernel |-> "pool", inWdims |-> <<nc[1], g.h, g.w, nc[2]>>,
       outWdims |-> <<nc[1], oh, ow, nc[2]>>,
       filterSize |-> g.filterSize, stride |-> g.stride, pad |-> g.pad,
       inW  |-> Fill(p, nc[1] * g.h * g.w * nc[2]),
       outW |-> Zeros(nc[1] * oh * ow * nc[2]),
       inXY |-> Zeros(2 * nc[1] * oh * ow * nc[2]),
       inG  |-> [i \in 1..(nc[1] * g.h * g.w * nc[2]) |-> 1]] :
     g \in Geometries, nc \in {<<1, 1>>, <<2, 1>>, <<1, 2>>},
     p \in {<<0, 0>>, <<1, 0>>, <<2, 1>>, <<1, 2>>}}

\* An output gradient that is df at offset o and 0.0 elsewhere.
OneHot(len, o, df) == [i \in 1..len |-> IF i = o + 1 THEN df ELSE 0]

PoolMax ==
  /\ ~ub
  /\ kin.kernel = "pool"
  /\ kout.kernel = "none"
  /\ kout' = Return("libjit_pool_max_f", libjit_pool_max_f(kin))
  /\ UNCHANGED <<abiVars, ub, loaderVars, kin>>

PoolMaxXY ==
  /\ ~ub
  /\ kin.kernel = "pool"
  /\ kout.kernel = "none"
  /\ kout' = Return("libjit_pool_max_xy_f", libjit_pool_max_xy_f(kin))
  /\ UNCHANGED <<abiVars, ub, loaderVars, kin>>

\* The gradient kernel runs on the inXY the forward kernel left.
PoolMaxXYGrad ==
  /\ ~ub
  /\ kout.kernel = "libjit_pool_max_xy_f"
  /\ \E o \in 0..(Len(kin.outW) - 1), df \in {-2, 1} :
       kout' = Return("libjit_pool_max_xy_grad_f",
                      [outG |-> OneHot(Len(kin.outW), o, df), hot |-> o,
                       inG  |-> libjit_pool_max_xy_grad_f(kin, kin.inG,
                                  OneHot(Len(kin.outW), o, df),
                                  kout["libjit_pool_max_xy_f"].inXY)])
  /\ UNCHANGED <<abiVars, ub, loaderVars, kin>>

PoolAvg ==
  /\ ~ub
  /\ kin.kernel = "pool"
  /\ kout.kernel = "none"
  /\ kout' = Return("libjit_pool_avg_f", libjit_pool_avg_f(kin))
  /\ UNCHANGED <<abiVars, ub, loaderVars, kin>>

\* ------------------------------------------------------------- libjit_sgd_f
\* The floats of the weight update and of the normalization are exact
\* fractions <<numerator, denominator>>, in lowest terms with a positive
\* denominator; rounding is not modelled.
RECURSIVE GCD(_, _)
GCD(a, b) == IF b = 0 THEN a ELSE GCD(b, a % b)

Abs(a) == IF a < 0 THEN 0 - a ELSE a

Frac(num, den) ==
  LET g == GCD(Abs(num), Abs(den))
      s == IF den < 0 THEN 0 - 1 ELSE 1
  IN <<(s * num) \div g, (s * den) \div g>>

Float(a) == <<a, 1>>

FAdd(a, b) == Frac(a[1] * b[2] + b[1] * a[2], a[2] * b[2])

FSub(a, b) == Frac(a[1] * b[2] - b[1] * a[2], a[2] * b[2])

FMul(a, b) == Frac(a[1] * b[1], a[2] * b[2])

FDiv(a, b) == Frac(a[1] * b[2], a[2] * b[1])

FloatSeq(s) == [i \in 1..Len(s) |-> Float(s[i])]

\* `if (momentum > 0.0)`.
MomentumTaken(momentum) == momentum[1] > 0

\* One iteration of the loop: element i of W and of Gsum afterwards.
SgdElement(k, i) ==
  LET L1Grad == FMul(k.L1Decay, IF k.W[i][1] > 0 THEN Float(1) ELSE Float(0 - 1))
      L2Grad == FMul(k.L2Decay, k.W[i])
      Gij    == FDiv(FAdd(FAdd(L2Grad, L1Grad), k.G[i]), Float(k.batchSize))
      dx     == FSub(FMul(k.momentum, k.Gsum[i]), FMul(k.learningRate, Gij))
  IN IF MomentumTaken(k.momentum)
     THEN [W |-> FAdd(k.W[i], dx), Gsum |-> dx]
     ELSE [W |-> FSub(k.W[i], FMul(k.learningRate, Gij)), Gsum |-> k.Gsum[i]]

libjit_sgd_f(k) ==
  [W    |-> [i \in 1..Len(k.W) |-> IF i <= k.Wsize THEN SgdElement(k, i).W ELSE k.W[i]],
   Gsum |-> [i \in 1..Len(k.Gsum) |->
               IF i <= k.Wsize THEN SgdElement(k, i).Gsum ELSE k.Gsum[i]]]

MaxWeights == 2

Momenta == {Float(0 - 1), Float(0), Frac(1, 2), Float(1)}

SgdInputs ==
  {[kernel |-> "sgd",
    W |-> FloatSeq(Fill(pW, len)), G |-> FloatSeq(Fill(<<1, 0>>, len)),
    Gsum |-> FloatSeq(Fill(pS, len)),
    L1Decay |-> Float(d[1]), L2Decay |-> Float(d[2]),
    learningRate |-> Frac(1, 2), momentum |-> m,
    batchSize |-> b, Wsize |-> len] :
     len \in 1..MaxWeights, pW \in {<<0, 0>>, <<1, 0>>, <<1, 1>>},
     pS \in {<<0, 1>>, <<0, 2>>, <<1, 1>>}, d \in {<<0, 0>>, <<1, 0>>, <<0, 1>>},
     m \in Momenta, b \in 1..2}

Sgd ==
  /\ ~ub
  /\ kin.kernel = "sgd"
  /\ ~Called("libjit_sgd_f")
  /\ kout' = Return("libjit_sgd_f", libjit_sgd_f(kin))
  /\ UNCHANGED <<abiVars, ub, loaderVars, kin>>

\* ------------------------------------------ libjit_local_response_normalization
MIN(a, b) == IF a < b THEN a ELSE b

RECURSIVE FSum(_)
FSum(s) == IF s = <<>> THEN Float(0) ELSE FAdd(FSum(SubSeq(s, 1, Len(s) - 1)), s[Len(s)])

\* pow(scale, -beta), for the whole-number beta the inputs have.
RECURSIVE PowNeg(_, _)
PowNeg(scale, beta) ==
  IF beta = 0 THEN Float(1) ELSE FDiv(PowNeg(scale, beta - 1), scale)

\* The channels the forward loop `for (i = (c >= halfWindow ? c - halfWindow
\* : 0); i <= MIN(c + halfWindow, inWdims[3] - 1); i++)` visits.
ForwardWindow(c, halfWindow, channels) ==
  (IF c >= halfWindow THEN c - halfWindow ELSE 0)..MIN(c + halfWindow, channels - 1)

libjit_local_response_normalization_f(k) ==
  LET window      == 2 * k.halfWindow + 1
      normedAlpha == FDiv(k.alpha, Float(window))
      its         == Loops(k.inWdims)
      at(e, c)    == libjit_getXYZW(k.inWdims, e[1], e[2], e[3], c)
      m2(e) ==
        LET lo == IF e[4] >= k.halfWindow THEN e[4] - k.halfWindow ELSE 0
            hi == MIN(e[4] + k.halfWindow, k.inWdims[4] - 1)
        IN FSum([i \in 1..(hi - lo + 1) |->
                   FMul(k.inW[at(e, lo + i - 1) + 1], k.inW[at(e, lo + i - 1) + 1])])
      scale(e) == FAdd(k.k, FMul(normedAlpha, m2(e)))
  IN [scaleCache |-> Store(k.scaleCache,
                       [j \in 1..Len(its) |-> <<at(its[j], its[j][4]), scale(its[j])>>]),
      outW |-> Store(k.outW,
                 [j \in 1..Len(its) |->
                    <<libjit_getXYZW(k.outWdims, its[j][1], its[j][2], its[j][3], its[j][4]),
                      FMul(k.inW[at(its[j], its[j][4]) + 1],
                           PowNeg(scale(its[j]), k.beta))>>])]

\* outg * (outw / scale) of channel j at <<n, h, w>>.
LrnTerm(k, f, e, j) ==
  LET at == libjit_getXYZW(k.outWdims, e[1], e[2], e[3], j) + 1
  IN FMul(k.outG[at], FDiv(f.outW[at], f.scaleCache[at]))

EntersWindowLate(j, channels) == j + 1 < channels

\* `if (j < outWdims[3])`: channel c + halfWindow enters the window.
EntersWindow(j, channels) == j < channels

\* The value of `sum` when inG of channel e[4] is computed: the right half
\* prepared at c = 0, then per channel the term that leaves and the one that
\* enters.
RECURSIVE RunningSum(_, _, _)
RunningSum(k, f, e) ==
  LET c == e[4]
      before ==
        IF c = 0
        THEN FSum([i \in 1..MIN(k.halfWindow, k.outWdims[4]) |-> LrnTerm(k, f, e, i - 1)])
        ELSE RunningSum(k, f, <<e[1], e[2], e[3], c - 1>>)
      left ==
        IF c > k.halfWindow
        THEN FSub(before, LrnTerm(k, f, e, c - k.halfWindow - 1))
        ELSE before
  IN IF EntersWindow(c + k.halfWindow, k.outWdims[4])
     THEN FAdd(left, LrnTerm(k, f, e, c + k.halfWindow))
     ELSE left

\* f: the outW and scaleCache the forward kernel left.  The result holds inG
\* and, per element, the value of `sum` used for it.
libjit_local_response_normalization_grad_f(k, f) ==
  LET window      == 2 * k.halfWindow + 1
      normedAlpha == FDiv(k.alpha, Float(window))
      its         == Loops(k.outWdims)
      at(e)       == libjit_getXYZW(k.outWdims, e[1], e[2], e[3], e[4])
      ing(e) ==
        FSub(FMul(k.outG[at(e) + 1], PowNeg(f.scaleCache[at(e) + 1], k.beta)),
             FMul(FMul(FMul(FMul(Float(2), normedAlpha), Float(k.beta)),
                       k.inW[at(e) + 1]),
                  RunningSum(k, f, e)))
  IN [inG |-> Store(k.inG, [j \in 1..Len(its) |-> <<at(its[j]), ing(its[j])>>]),
      sum |-> [j \in 1..Len(its) |-> RunningSum(k, f, its[j])]]

MaxChannels == 3

LrnInputs ==
  {[kernel |-> "lrn", inWdims |-> <<1, 1, w, c>>, outWdims |-> <<1, 1, w, c>>,
    halfWindow |-> h, alpha |-> Float(1), beta |-> 1, k |-> Float(1),
    inW  |-> FloatSeq(Fill(pIn, w * c)),
    outG |-> FloatSeq(Fill(pG, w * c)),
    outW |-> FloatSeq(Zeros(w * c)), scaleCache |-> FloatSeq(Zeros(w * c)),
    inG  |-> FloatSeq(Zeros(w * c))] :
     w \in 1..2, c \in 1..MaxChannels, h \in 0..(MaxChannels + 1),
     pIn \in {<<0, 2>>, <<1, 0>>, <<2, 1>>}, pG \in {<<0, 2>>, <<1, 1>>, <<2, 0>>}}

LocalResponseNormalization ==
  /\ ~ub
  /\ kin.kernel = "lrn"
  /\ kout.kernel = "none"
  /\ kout' = Return("libjit_local_response_normalization_f",
                    libjit_local_response_normalization_f(kin))
  /\ UNCHANGED <<abiVars, ub, loaderVars, kin>>

\* The gradient kernel runs on the outW and scaleCache of the forward kernel.
LocalResponseNormalizationGrad ==
  /\ ~ub
  /\ kout.kernel = "libjit_local_response_normalization_f"
  /\ kout' = Return("libjit_local_response_normalization_grad_f",
                    libjit_local_response_normalization_grad_f(kin,
                      kout["libjit_local_response_normalization_f"]))
  /\ UNCHANGED <<abiVars, ub, loaderVars, kin>>

\* ------------------------------------------------- libjit_element_cmp_lte_f
\* `dest[i] = LHS[i] < RHS[i]` for i < numElem: the comparison yields 1 or 0.
libjit_element_cmp_lte_f(k) ==
  Store(k.dest,
        [j \in 1..k.numElem |-> <<j - 1, IF k.LHS[j] < k.RHS[j] THEN 1 ELSE 0>>])

MaxElem == 2

\* LHS and RHS hold MaxElem + 1 elements and dest one more than numElem;
\* dest starts with values that are neither 0 nor 1.
CmpInputs ==
  {[kernel |-> "cmp", LHS |-> l, RHS |-> r, numElem |-> n,
    dest |-> [i \in 1..(n + 1) |-> 0 - 1]] :
     n \in 0..MaxElem, l \in [1..(MaxElem + 1) -> {-1, 0, 1}],
     r \in [1..(MaxElem + 1) -> {-1, 0, 1}]}

ElementCmpLte ==
  /\ ~ub
  /\ kin.kernel = "cmp"
  /\ ~Called("libjit_element_cmp_lte_f")
  /\ kout' = Return("libjit_element_cmp_lte_f", [dest |-> libjit_element_cmp_lte_f(kin)])
  /\ UNCHANGED <<abiVars, ub, loaderVars, kin>>

\* ---------------------------------------------------------- specifications
Next ==
  \/ GetBackendIDs
  \/ ReleaseBackendID
  \/ GetBackendInfo
  \/ InitBackend
  \/ ReleaseBackend
  \/ InitEvent
  \/ SignalEvent
  \/ WaitEvent
  \/ Wake
  \/ ReleaseEvent
  \/ InitGraph
  \/ SetGraphIO
  \/ RunGraph
  \/ ReleaseGraph
  \/ LoadOperator
  \/ LoadReshapeShapes
  \/ LoadArithmeticAxes
  \/ Convolution
  \/ ConvolutionUnrolled
  \/ Transpose
  \/ TransposeBack
  \/ PoolMax
  \/ PoolMaxXY
  \/ PoolMaxXYGrad
  \/ PoolAvg
  \/ Sgd
  \/ LocalResponseNormalization
  \/ LocalResponseNormalizationGrad
  \/ ElementCmpLte

\* Backend enumeration and the info query.
NextIds ==
  \/ GetBackendIDs
  \/ GetBackendInfo
  \/ ReleaseBackendID

SpecIds == Init /\ [][NextIds]_vars

\* The event calls, with one thread that may block in onnxWaitEvent.
NextEvent ==
  \/ GetBackendIDs
  \/ InitBackend
  \/ InitEvent
  \/ SignalEvent
  \/ WaitEvent
  \/ Wake
  \/ ReleaseEvent

SpecEvent == Init /\ [][NextEvent]_vars

\* A thread blocked on a condition variable that has been notified is
\* scheduled and returns.
FairEvent == SpecEvent /\ \A t \in Waiters : WF_vars(WaitWake(t))

\* The graph calls, with the event calls a host uses around a run.
NextGraph ==
  \/ GetBackendIDs
  \/ InitBackend
  \/ InitEvent
  \/ InitGraph
  \/ SetGraphIO
  \/ RunGraph
  \/ ReleaseGraph
  \/ SignalEvent
  \/ WaitEvent
  \/ Wake

SpecGraph == Init /\ [][NextGraph]_vars

FairGraph == SpecGraph /\ \A t \in Waiters : WF_vars(WaitWake(t))

\* Run requests alone, from the state in which the host has enumerated the
\* backend ID and initialised a backend on it (onnxGetBackendIDs with a buffer
\* of one slot, then onnxInitBackend).
InitRun ==
  /\ heap = [h \in Handles |-> IF h \in {<<"ID", 1>>, <<"BACKEND", 1>>}
                                THEN "live" ELSE "unalloc"]
  /\ frees = [h \in Handles |-> 0]
  /\ known = {<<"ID", 1>>, <<"BACKEND", 1>>}
  /\ fired = [e \in HandlesOf("EVENT") |-> FALSE]
  /\ ioBound = [g \in HandlesOf("GRAPH") |-> FALSE]
  /\ runs = {}
  /\ pc = [t \in Waiters |-> Idle]
  /\ ub = FALSE
  /\ ret = [op |-> "onnxInitBackend", backendID |-> <<"ID", 1>>,
            status |-> "SUCCESS", out |-> <<"BACKEND", 1>>]
  /\ LoaderIdle
  /\ KernelIdle

NextRun ==
  \/ InitEvent
  \/ InitGraph
  \/ RunGraph

SpecRun == InitRun /\ [][NextRun]_vars

\* Every call that allocates and every call that releases.
NextRelease ==
  \/ GetBackendIDs
  \/ InitBackend
  \/ InitEvent
  \/ InitGraph
  \/ ReleaseBackendID
  \/ ReleaseBackend
  \/ ReleaseEvent
  \/ ReleaseGraph

SpecRelease == Init /\ [][NextRelease]_vars

NextLoad == LoadOperator

SpecLoad == Init /\ [][NextLoad]_vars

NextReshape == LoadReshapeShapes

SpecReshape == Init /\ [][NextReshape]_vars

NextArithmetic == LoadArithmeticAxes

SpecArithmetic == Init /\ [][NextArithmetic]_vars

InitConvolution ==
  /\ AbiIdle
  /\ LoaderIdle
  /\ kin \in ConvInputs
  /\ kout = [kernel |-> "none"]

NextConvolution ==
  \/ Convolution
  \/ ConvolutionUnrolled

SpecConvolution == InitConvolution /\ [][NextConvolution]_vars

InitTranspose ==
  /\ AbiIdle
  /\ LoaderIdle
  /\ kin \in TransposeInputs
  /\ kout = [kernel |-> "none"]

NextTranspose ==
  \/ Transpose
  \/ TransposeBack

SpecTranspose == InitTranspose /\ [][NextTranspose]_vars

InitPool ==
  /\ AbiIdle
  /\ LoaderIdle
  /\ kin \in PoolInputs
  /\ kout = [kernel |-> "none"]

NextPool ==
  \/ PoolMax
  \/ PoolMaxXY
  \/ PoolMaxXYGrad
  \/ PoolAvg

SpecPool == InitPool /\ [][NextPool]_vars

InitSgd ==
  /\ AbiIdle
  /\ LoaderIdle
  /\ kin \in SgdInputs
  /\ kout = [kernel |-> "none"]

NextSgd ==
  \/ Sgd

SpecSgd == InitSgd /\ [][NextSgd]_vars

InitLrn ==
  /\ AbiIdle
  /\ LoaderIdle
  /\ kin \in LrnInputs
  /\ kout = [kernel |-> "none"]

NextLrn ==
  \/ LocalResponseNormalization
  \/ LocalResponseNormalizationGrad

SpecLrn == InitLrn /\ [][NextLrn]_vars

InitCmp ==
  /\ AbiIdle
  /\ LoaderIdle
  /\ kin \in CmpInputs
  /\ kout = [kernel |-> "none"]

NextCmp ==
  \/ ElementCmpLte

SpecCmp == InitCmp /\ [][NextCmp]_vars

Spec == Init /\ [][Next]_vars

\* ------------------------------------------------------------------ claims
EventHandles == HandlesOf("EVENT")
GraphHandles == HandlesOf("GRAPH")

RunAccepted == ret.op = "onnxRunGraph" /\ ret.status = "SUCCESS"

\* C1: onnxRunGraph returns SUCCESS for a graph only if onnxSetGraphIO has
\* succeeded on that graph before; a run on a graph still in state Created is
\* not accepted.
C1_RunOnlyWhenIOBound ==
  RunAccepted => (ret.graph \in GraphHandles /\ ioBound[ret.graph])

\* A run accepted by onnxRunGraph whose output fence carries the event e.
RunInto(e) == \E r \in runs : r[2] = e

\* C2: after every onnxRunGraph that returns SUCCESS the event of the output
\* fence eventually becomes Signaled, without the host signalling it.
C2_OutputFenceSignalled ==
  \A e \in EventHandles : (RunInto(e) /\ Live(e) /\ ~ub) ~> (fired[e] \/ ub)

\* A run is outstanding while the event of its output fence is not signalled.
Outstanding(r) == r[2] \in EventHandles /\ ~fired[r[2]]

\* C3: in no reachable state is a graph Released while a run accepted on it is
\* still outstanding.
C3_NoReleaseWithRunInFlight ==
  \A r \in runs : ~(Dangling(r[1]) /\ Outstanding(r))

\* The last call was onnxSignalEvent on an event that was live.
SignalledLive == ret.op = "onnxSignalEvent" /\ ret.event # NULL /\ ~ub

\* C4: an event is single-shot.  onnxSignalEvent on a live Unsignaled event
\* returns SUCCESS and leaves it Signaled, on a Signaled event it returns
\* INVALID_STATE, and no step takes a Signaled event back to Unsignaled.
C4_EventSingleShot ==
  /\ [](SignalledLive =>
          /\ fired[ret.event]
          /\ ret.status = (IF ret.before THEN "INVALID_STATE" ELSE "SUCCESS"))
  /\ [][\A e \in EventHandles : fired[e] => fired'[e]]_vars

\* C4 witness: a second onnxSignalEvent on a live event was turned down.
C4_SecondSignalRejected ==
  SignalledLive /\ ret.before /\ ret.status = "INVALID_STATE"

Blocked(t) == pc[t].at = "waiting" /\ ~fired[pc[t].event]

\* C5: onnxWaitEvent on a live event returns SUCCESS only when the event is
\* Signaled; a thread blocks only on an Unsignaled event and a blocked thread
\* takes no step until the event is signalled; once it is, the thread
\* eventually returns (unless the host deletes the event under it).
C5_WaitReturnsWhenSignalled ==
  /\ []((ret.op = "onnxWaitEvent" /\ ret.status = "SUCCESS" /\ ~ub) => fired[ret.event])
  /\ [][\A t \in Waiters :
          /\ (Blocked(t) => pc'[t] = pc[t])
          /\ (pc[t].at = "idle" /\ pc'[t].at = "waiting" /\ ~ub' => Blocked(t)')]_vars
  /\ \A t \in Waiters :
       (pc[t].at = "waiting" /\ fired[pc[t].event]) ~> (pc[t].at = "idle" \/ ub)

\* C5 witness: a thread that had blocked in onnxWaitEvent has returned.
C5_BlockedWaiterReturned ==
  ret.op = "onnxWaitEvent" /\ ret.status = "SUCCESS" /\ ret.blocked /\ ~ub

\* C6: when onnxInitGraph fails because Graph::initGraph reports a status other
\* than SUCCESS, the Graph it allocated is released before it returns, and
\* *graph is not written.
C6_FailedInitGraphReleased ==
  (ret.op = "onnxInitGraph" /\ ret.status # "SUCCESS") =>
     (ret.out = NULL /\ ~Live(ret.created))

ReleaseCalls ==
  {"onnxReleaseBackendID", "onnxReleaseBackend", "onnxReleaseEvent", "onnxReleaseGraph"}

InvalidHandleStatus(op) ==
  CASE op = "onnxReleaseBackendID" -> "INVALID_ID"
    [] op = "onnxReleaseBackend"   -> "INVALID_BACKEND"
    [] op = "onnxReleaseEvent"     -> "INVALID_EVENT"
    [] op = "onnxReleaseGraph"     -> "INVALID_GRAPH"

\* C7: a release call on a handle that was already released, or is of another
\* kind, returns the invalid-handle status of its kind and frees nothing; no
\* object is freed twice.
C7_InvalidReleaseReported ==
  /\ \A h \in Handles : frees[h] <= 1
  /\ (ret.op \in ReleaseCalls /\ ub) => ret.status = InvalidHandleStatus(ret.op)

\* C8: onnxGetBackendIDs with a non-null numBackends.  With a null backendIDs
\* it returns FALLBACK, sets *numBackends to 1 and creates no BackendId; with a
\* buffer of capacity >= 1 it returns SUCCESS, sets *numBackends to 1, creates
\* one BackendId and stores it in backendIDs[0] and nowhere else.
C8_GetBackendIDs ==
  [][(ret'.op = "onnxGetBackendIDs" /\ ret'.hasNum /\ (~ret'.hasIDs \/ ret'.cap >= 1)) =>
       IF ~ret'.hasIDs
       THEN /\ ret'.status = "FALLBACK"
            /\ ret'.numBackends = 1
            /\ heap' = heap
            /\ known' = known
       ELSE /\ ret'.status = "SUCCESS"
            /\ ret'.numBackends = 1
            /\ Len(ret'.backendIDs) = ret'.cap
            /\ ret'.backendIDs[1] \in HandlesOf("ID")
            /\ heap[ret'.backendIDs[1]] = "unalloc"
            /\ heap' = [heap EXCEPT ![ret'.backendIDs[1]] = "live"]
            /\ \A i \in 2..ret'.cap : ret'.backendIDs[i] = NULL]_vars

\* C8 witness: a call with a buffer of two slots has stored its one ID.
C8_OneIdStored ==
  /\ ret.op = "onnxGetBackendIDs"
  /\ ret.status = "SUCCESS"
  /\ ret.cap = 2
  /\ Live(ret.backendIDs[1])

\* The value each supported info type reports, and the bytes it takes.
InfoString(infoType) ==
  CASE infoType = "BACKEND_NAME"    -> <<"G", "l", "o", "w", NUL>>
    [] infoType = "BACKEND_VENDOR"  -> <<"P", "y", "T", "o", "r", "c", "h", NUL>>
    [] infoType = "BACKEND_VERSION" -> <<"1", ".", "0", ".", "0", NUL>>
    [] infoType = "BACKEND_DEVICE"  -> <<"G", "l", "o", "w", NUL>>
    [] infoType = "BACKEND_MEMORY_TYPES" -> [i \in 1..SizeofUInt64 |-> "MEMORY_TYPE_CPU"]
    [] infoType = "BACKEND_SYNCHRONIZATION_TYPES" ->
         [i \in 1..SizeofUInt64 |-> "SYNCHRONIZATION_EVENT"]

\* What the negotiation protocol asks of a call, given its record r.
InfoProtocol(r) ==
  IF r.infoType \in StringInfo \cup UInt64Info
  THEN LET value  == InfoString(r.infoType)
           needed == Len(value)
       IN IF ~r.hasValue \/ r.sizeIn < needed
          THEN /\ r.status = "FALLBACK"
               /\ r.infoValueSize = needed
               /\ r.infoValue = InfoBuffer(r.hasValue, r.sizeIn)
          ELSE /\ r.status = "SUCCESS"
               /\ r.infoValueSize = needed
               /\ Len(r.infoValue) = r.sizeIn
               /\ \A i \in 1..r.sizeIn :
                    r.infoValue[i] = IF i <= needed THEN value[i] ELSE Uninit
  ELSE /\ r.status = "UNSUPPORTED_PARAMETER"
       /\ r.infoValueSize = r.sizeIn
       /\ r.infoValue = InfoBuffer(r.hasValue, r.sizeIn)

\* C9 as stated: every onnxGetBackendInfo call (with a non-null infoValueSize)
\* follows the negotiation protocol, whatever backendID is.
C9_InfoProtocolAnyId ==
  (ret.op = "onnxGetBackendInfo" /\ ret.hasSize) => InfoProtocol(ret)

\* C9, amended: every onnxGetBackendInfo call with a non-null backendID and a
\* non-null infoValueSize follows the negotiation protocol: FALLBACK with the
\* needed size and nothing written when infoValue is null or too small,
\* SUCCESS with the value written and the needed size otherwise, and
\* UNSUPPORTED_PARAMETER with nothing changed for any other info type.
C9_InfoProtocol ==
  (ret.op = "onnxGetBackendInfo" /\ ret.hasSize /\ ret.backendID # NULL) => InfoProtocol(ret)

\* C9 witness: the vendor string was written into a buffer large enough.
C9_VendorWritten ==
  /\ ret.op = "onnxGetBackendInfo"
  /\ ret.backendID # NULL
  /\ ret.infoType = "BACKEND_VENDOR"
  /\ ret.status = "SUCCESS"
  /\ ret.infoValueSize = 8

WellFormed(f) == f.type = "SYNCHRONIZATION_EVENT" /\ f.tag = "TAG_MEMORY_FENCE_V1"

\* C10: onnxRunGraph with non-null fences and a non-null graph returns
\* UNSUPPORTED_TAG, accepts no run and signals no event, whenever the type or
\* the tag of either fence is not the supported one, and SUCCESS only when all
\* four fields are.
C10_FenceTypeAndTag ==
  [][(/\ ret'.op = "onnxRunGraph"
      /\ ret'.inputFence # NoFence
      /\ ret'.outputFence # NoFence
      /\ ret'.graph # NULL) =>
       IF WellFormed(ret'.inputFence) /\ WellFormed(ret'.outputFence)
       THEN ret'.status = "SUCCESS"
       ELSE /\ ret'.status = "UNSUPPORTED_TAG"
            /\ runs' = runs
            /\ fired' = fired]_vars

\* C10 witness: a run was turned down for the tag of its output fence alone.
C10_OutputTagRejected ==
  /\ ret.op = "onnxRunGraph"
  /\ ret.graph # NULL
  /\ WellFormed(ret.inputFence)
  /\ ret.outputFence.type = "SYNCHRONIZATION_EVENT"
  /\ ret.outputFence.tag = "TAG_OTHER"
  /\ ret.status = "UNSUPPORTED_TAG"

KindReleased(op) ==
  CASE op = "onnxReleaseBackendID" -> "ID"
    [] op = "onnxReleaseBackend"   -> "BACKEND"
    [] op = "onnxReleaseEvent"     -> "EVENT"
    [] op = "onnxReleaseGraph"     -> "GRAPH"

\* C11: a release call given a null handle returns the invalid-handle status
\* of its own kind and changes no object; given a live handle of its kind it
\* returns SUCCESS and the object is released (freed once, no longer live).
C11_ReleaseNullAndLive ==
  [][ret'.op \in ReleaseCalls =>
       IF ret'.h = NULL THEN
         /\ ret'.status = InvalidHandleStatus(ret'.op)
         /\ UNCHANGED <<heap, frees, known, fired, ioBound, runs, pc, ub>>
       ELSE IF Live(ret'.h) /\ ret'.h[1] = KindReleased(ret'.op) THEN
         /\ ret'.status = "SUCCESS"
         /\ heap'[ret'.h] = "freed"
         /\ frees'[ret'.h] = frees[ret'.h] + 1
         /\ \A g \in Handles \ {ret'.h} : heap'[g] = heap[g] /\ frees'[g] = frees[g]
         /\ ~ub'
       ELSE TRUE]_vars

C11_LiveEventReleased ==
  /\ ret.op = "onnxReleaseEvent"
  /\ ret.status = "SUCCESS"
  /\ ~ub
  /\ heap[ret.h] = "freed"
  /\ frees[ret.h] = 1

\* A step that is a call of tryLoadCommonOperator returning result.
Returned(result) ==
  /\ loadRet'.n = loadRet.n + 1
  /\ loadRet'.result = result

\* What a later operator naming the name as its input gets.
ResolvedLater(name) ==
  getNodeValueOrCreateVariableByName(Loaded(G_', nodeValueByName_'), name).nv

\* The name is registered after the call, and resolves to a node the call
\* created; for Dropout, the identity, to the node its input resolved to.
RegisteredByCall(name) ==
  /\ name \in DOMAIN nodeValueByName_'
  /\ IF loadRet'.typeName = "Dropout"
     THEN ResolvedLater(name).node =
            getNodeValueOrCreateVariableByName(Loaded(G_, nodeValueByName_),
                                               loadRet'.operator.input[1]).nv.node
     ELSE ResolvedLater(name).node > Len(G_)

\* The call left the name as it was: registered or not, and to what.
Untouched(name) ==
  /\ name \in DOMAIN nodeValueByName_' <=> name \in DOMAIN nodeValueByName_
  /\ name \in DOMAIN nodeValueByName_ =>
       nodeValueByName_'[name] = nodeValueByName_[name]

\* C12 as stated: after tryLoadCommonOperator returns true, every output name
\* the operator declares, other than Dropout's outputs after the first, is
\* registered, and a later operator naming it resolves to a value of this
\* operator.
C12_EveryOutputRegistered ==
  [][Returned(TRUE) =>
       \A i \in 1..Len(loadRet'.operator.output) :
         \/ loadRet'.typeName = "Dropout" /\ i > 1
         \/ RegisteredByCall(loadRet'.operator.output[i])]_vars

FirstOutputOnly == {"LRN", "Reshape", "Dropout"}

\* C12, amended: the same for every operator other than LRN, Reshape and
\* Dropout; of these three only the first output name is registered, and
\* their other output names are left as they were.
C12_OutputsRegistered ==
  [][Returned(TRUE) =>
       \A i \in 1..Len(loadRet'.operator.output) :
         IF loadRet'.typeName \in FirstOutputOnly /\ i > 1
         THEN loadRet'.operator.output[i] # loadRet'.operator.output[1]
                => Untouched(loadRet'.operator.output[i])
         ELSE RegisteredByCall(loadRet'.operator.output[i])]_vars

\* A second operator, with two outputs, read an output of the first.
C12_LaterOperatorResolved ==
  /\ loadRet.n = 2
  /\ loadRet.result = TRUE
  /\ loadRet.typeName = "Sigmoid"
  /\ loadRet.operator.input = <<"z">>
  /\ loadRet.operator.output = <<"y", "z">>
  /\ Len(G_) = 3
  /\ G_[2].kind = "RELU"
  /\ G_[3].in = <<NodeValue(2, 1)>>
  /\ nodeValueByName_["z"] = NodeValue(3, 1)

\* C13: for a type name outside the thirteen supported ones
\* tryLoadCommonOperator returns false, without aborting, and leaves the graph
\* and the environment as they were; for each of the thirteen it returns true.
C13_DispatchOnTypeName ==
  [][loadRet'.n = loadRet.n + 1 =>
       IF loadRet'.typeName \in
            {"Relu", "Sigmoid", "Sum", "Softmax", "LRN", "Mul", "Add", "Sub",
             "Div", "Split", "Reshape", "Flatten", "Dropout"}
       THEN loadRet'.result = TRUE
       ELSE /\ loadRet'.result = FALSE
            /\ ~ub'
            /\ UNCHANGED <<G_, nodeValueByName_>>]_vars

\* An unsupported operator was refused after another had been loaded.
C13_TransposeRefused ==
  /\ loadRet.n = 2
  /\ loadRet.typeName = "Transpose"
  /\ loadRet.result = FALSE
  /\ Len(G_) = 2
  /\ DOMAIN nodeValueByName_ = {"w", "y", "z"}

\* The Reshape just loaded from a "shape" attribute: the attribute, the
\* extents of its input and the extents handed to createReshape.
ReshapeLoaded ==
  /\ ~ub
  /\ loadRet.op = "tryLoadCommonOperator"
  /\ loadRet.typeName = "Reshape"
  /\ loadRet.result = TRUE
  /\ "shape" \in DOMAIN loadRet.dict

ShapeAttr == loadRet.dict["shape"]
OldDim    == dims(G_, G_[Len(G_)].in[1])
NewDim    == G_[Len(G_)].dims

MinusOnes(shape) == {i \in 1..Len(shape) : shape[i] = -1}

\* The product of the entries of s at the positions other than i.
ProductOfOthers(s, i) ==
  Product([j \in 1..(Len(s) - 1) |-> IF j < i THEN s[j] ELSE s[j + 1]])

\* The rule of replacement: a 0 becomes the input's extent at that position,
\* a -1 the input's element count divided by the product of the other
\* resulting entries, any other entry stays.
ReshapeRule ==
  /\ Len(NewDim) = Len(ShapeAttr)
  /\ \A i \in 1..Len(ShapeAttr) :
       NewDim[i] = CASE ShapeAttr[i] = 0  -> OldDim[i]
                     [] ShapeAttr[i] = -1 -> Product(OldDim) \div ProductOfOthers(NewDim, i)
                     [] OTHER             -> ShapeAttr[i]

ArithmeticLoaded ==
  /\ loadRet.op = "tryLoadCommonOperator"
  /\ loadRet.typeName \in {"Add", "Sub", "Mul", "Div"}
  /\ loadRet.result = TRUE

Operand(i)   == nodeValueByName_[loadRet.operator.input[i]]
LastNode     == G_[Len(G_)]
Broadcasts   == {i \in 1..Len(G_) : G_[i].kind = "Broadcast"}
AxisGiven    == "axis" \in DOMAIN loadRet.dict /\ loadRet.dict["axis"] # -1

\* C15: an arithmetic operator with broadcast enabled gets as its second
\* operand a Broadcast of operand 1 to the shape of operand 0, along the given
\* axis or, with no axis or axis -1, along rank(operand 0) - rank(operand 1);
\* with broadcast disabled it gets operand 1 itself and no Broadcast node is
\* made.  Extents <<2, 3>> with <<3>> and no axis give axis 1.
C15_BroadcastAxis ==
  ArithmeticLoaded =>
    /\ LastNode.kind = loadRet.typeName
    /\ IF loadRet.broadcast THEN
         /\ Broadcasts = {Len(G_) - 1}
         /\ LastNode.in = <<Operand(1), NodeValue(Len(G_) - 1, 0)>>
         /\ G_[Len(G_) - 1].in = <<Operand(2)>>
         /\ G_[Len(G_) - 1].dims = dims(G_, Operand(1))
         /\ G_[Len(G_) - 1].axis =
              IF AxisGiven THEN loadRet.dict["axis"]
              ELSE Len(dims(G_, Operand(1))) - Len(dims(G_, Operand(2)))
         /\ (dims(G_, Operand(1)) = <<2, 3>> /\ dims(G_, Operand(2)) = <<3>>
               /\ ~AxisGiven) => G_[Len(G_) - 1].axis = 1
       ELSE
         /\ Broadcasts = {}
         /\ LastNode.in = <<Operand(1), Operand(2)>>

\* Add of the 2 x 3 weight and the weight of 3 elements, no axis given.
C15_TrailingAligned ==
  /\ ArithmeticLoaded
  /\ loadRet.typeName = "Add"
  /\ loadRet.broadcast
  /\ loadRet.dict = <<>>
  /\ loadRet.operator.input = <<"a", "b">>
  /\ G_[3].kind = "Broadcast"
  /\ G_[3].axis = 1
  /\ G_[3].dims = <<2, 3>>

\* C16: on the same input, filter, bias, stride and pad, for every number of
\* output channels, libjit_convolution_f_unroll_k4 leaves the output buffer
\* as libjit_convolution_f leaves it, and stores nothing outside the buffer.
C16_UnrolledEqualsReference ==
  Called("libjit_convolution_f_unroll_k4") =>
    /\ ~kout["libjit_convolution_f_unroll_k4"].outside
    /\ Called("libjit_convolution_f") =>
         kout["libjit_convolution_f_unroll_k4"].outW = kout["libjit_convolution_f"].outW

\* C17: for a tensor of rank 2, 3 or 4 and a permutation P, transposing with
\* shuffle P and then with the inverse of P gives back the original buffer.
C17_TransposeRoundTrip ==
  Called("back") => kout["back"].outW = kin.inW

\* A 2 x 2 x 2 x 2 tensor transposed with a shuffle that is not its own
\* inverse, and back.
C17_RotatedAndBack ==
  /\ Called("back")
  /\ kin.numDims = 4
  /\ kin.idim = <<2, 2, 2, 2>>
  /\ kin.shuffle = <<1, 2, 3, 0>>
  /\ kout["libjit_transpose_f"].outW # kin.inW
  /\ kout["back"].outW = Iota(16)

\* The coordinates <<n, ax, ay, z>> of the output element at offset o.
OutputCoordinate(o) == Loops(kin.outWdims)[o + 1]

GradientRun == ~ub /\ kout.kernel = "libjit_pool_max_xy_grad_f"

\* Where the forward kernel recorded the maximum of output element o: the
\* input element <<n, maxX, maxY, z>>.
RecordedElement(o) ==
  LET c    == OutputCoordinate(o)
      inXY == kout["libjit_pool_max_xy_f"].inXY
  IN <<c[1], inXY[2 * o + 1], inXY[2 * o + 2], c[4]>>

\* C18: after libjit_pool_max_xy_f and then libjit_pool_max_xy_grad_f on an
\* output gradient that is nonzero at exactly one <<n, ax, ay, z>>, the input
\* gradient is nonzero at exactly the input element <<n, maxX, maxY, z>>
\* recorded for that location, and zero at every other input element.
C18_GradientAtRecordedArgmax ==
  GradientRun =>
    LET g   == kout["libjit_pool_max_xy_grad_f"]
        ins == Loops(kin.inWdims)
    IN /\ Len(g.inG) = Len(ins)
       /\ \A e \in 1..Len(ins) :
            (g.inG[e] # 0) <=> (ins[e] = RecordedElement(g.hot))
       /\ \A e \in 1..Len(ins) :
            ins[e] = RecordedElement(g.hot) => g.inG[e] = g.outG[g.hot + 1]

\* C18 witness: a gradient run on two images whose windows overlap (filter 2,
\* stride 1, padding 1 on 2 x 2), the nonzero output gradient in the second
\* image, the input gradient nonzero in the second image only.
C18_GradientRouted ==
  /\ GradientRun
  /\ kin.inWdims = <<2, 2, 2, 1>>
  /\ kin.filterSize = 2 /\ kin.stride = 1 /\ kin.pad = 1
  /\ OutputCoordinate(kout["libjit_pool_max_xy_grad_f"].hot)[1] = 1
  /\ \E e \in 5..8 : kout["libjit_pool_max_xy_grad_f"].inG[e] = -2
  /\ \A e \in 1..4 : kout["libjit_pool_max_xy_grad_f"].inG[e] = 0

\* The in-bounds input positions <<ox, oy>> of the window of the output
\* element at offset o.
InBoundsWindow(o) ==
  LET c == OutputCoordinate(o)
      x == c[2] * kin.stride - kin.pad
      y == c[3] * kin.stride - kin.pad
  IN {p \in (0..(kin.inWdims[2] - 1)) \X (0..(kin.inWdims[3] - 1)) :
        /\ x <= p[1] /\ p[1] < x + kin.filterSize
        /\ y <= p[2] /\ p[2] < y + kin.filterSize}

\* The input element at <<ox, oy>>, in the image and channel of output o.
InputAt(o, p) ==
  kin.inW[libjit_getXYZW(kin.inWdims, OutputCoordinate(o)[1], p[1], p[2],
                         OutputCoordinate(o)[4]) + 1]

WindowMaximum(o) ==
  CHOOSE m \in {InputAt(o, p) : p \in InBoundsWindow(o)} :
    \A p \in InBoundsWindow(o) : InputAt(o, p) <= m

\* kx is the outer loop and ky the inner one: p is visited after q.
VisitedAfter(p, q) == p[1] > q[1] \/ (p[1] = q[1] /\ p[2] > q[2])

LastMaximum(o) ==
  CHOOSE p \in InBoundsWindow(o) :
    /\ InputAt(o, p) = WindowMaximum(o)
    /\ \A q \in InBoundsWindow(o) :
         InputAt(o, q) = WindowMaximum(o) /\ q # p => VisitedAfter(p, q)

\* C19: the value libjit_pool_max_f and libjit_pool_max_xy_f write is the
\* maximum of the in-bounds window elements, and libjit_pool_max_xy_f records
\* the coordinates of the element equal to the maximum that is visited last
\* in scan order (kx outer, ky inner): last-equal-wins.
C19_LastEqualWins ==
  /\ (~ub /\ kout.kernel = "libjit_pool_max_f") =>
       \A o \in 0..(Len(kin.outW) - 1) :
         kout["libjit_pool_max_f"].outW[o + 1] = WindowMaximum(o)
  /\ (~ub /\ kout.kernel = "libjit_pool_max_xy_f") =>
       \A o \in 0..(Len(kin.outW) - 1) :
         /\ kout["libjit_pool_max_xy_f"].outW[o + 1] = WindowMaximum(o)
         /\ <<kout["libjit_pool_max_xy_f"].inXY[2 * o + 1],
              kout["libjit_pool_max_xy_f"].inXY[2 * o + 2]>> = LastMaximum(o)

\* C19 witness: a 2 x 2 window of four equal negative elements; the maximum
\* written is negative and the recorded coordinate is the last one, <<1, 1>>.
C19_TieTakesLast ==
  /\ ~ub /\ kout.kernel = "libjit_pool_max_xy_f"
  /\ kin.inWdims = <<1, 2, 2, 1>> /\ kin.filterSize = 2 /\ kin.pad = 0
  /\ kin.inW = <<-1, -1, -1, -1>>
  /\ kout["libjit_pool_max_xy_f"].outW = <<-1>>
  /\ kout["libjit_pool_max_xy_f"].inXY = <<1, 1>>

RECURSIVE SumOfWindow(_, _)
SumOfWindow(o, ps) ==
  IF ps = {} THEN 0
  ELSE LET p == CHOOSE q \in ps : TRUE
       IN InputAt(o, p) + SumOfWindow(o, ps \ {p})

AverageRun == ~ub /\ kout.kernel = "libjit_pool_avg_f"

\* C20: libjit_pool_avg_f writes, for every output position, the sum of the
\* in-bounds window elements over filterSize*filterSize; without padding the
\* divisor is the number of elements summed (the arithmetic mean), and at a
\* padded border it stays filterSize*filterSize however few are summed.
C20_NominalFilterArea ==
  AverageRun =>
    \A o \in 0..(Len(kin.outW) - 1) :
      /\ kout["libjit_pool_avg_f"].outW[o + 1] =
           <<SumOfWindow(o, InBoundsWindow(o)), kin.filterSize * kin.filterSize>>
      /\ kin.pad = 0 =>
           Cardinality(InBoundsWindow(o)) = kin.filterSize * kin.filterSize

\* C20 witness: kernel 3, stride 1, pad 1 on a 2 x 2 input of -1s; the corner
\* window sums 4 elements and the divisor is 9.
C20_CornerDividedByNine ==
  /\ AverageRun
  /\ kin.inWdims = <<1, 2, 2, 1>>
  /\ kin.filterSize = 3 /\ kin.stride = 1 /\ kin.pad = 1
  /\ Cardinality(InBoundsWindow(0)) = 4
  /\ kout["libjit_pool_avg_f"].outW[1] = <<-4, 9>>

MomentumNonzero(momentum) == momentum[1] # 0

\* The update of element i on the momentum path and on the plain path.
Gij(i) ==
  FDiv(FAdd(FAdd(FMul(kin.L2Decay, kin.W[i]),
                 FMul(kin.L1Decay, IF kin.W[i][1] > 0 THEN Float(1) ELSE Float(0 - 1))),
            kin.G[i]),
       Float(kin.batchSize))

MomentumStep(i) ==
  FSub(FMul(kin.momentum, kin.Gsum[i]), FMul(kin.learningRate, Gij(i)))

\* C21: libjit_sgd_f takes the momentum path (dx = momentum*Gsum[i] -
\* learningRate*Gij; Gsum[i] := dx; W[i] += dx) for every nonzero momentum,
\* negative ones included, and the plain step (W[i] -= learningRate*Gij, Gsum
\* unchanged) only when momentum is exactly zero.
C21_MomentumWhenNonzero ==
  (~ub /\ kout.kernel = "libjit_sgd_f") =>
    \A i \in 1..kin.Wsize :
      IF MomentumNonzero(kin.momentum)
      THEN /\ kout["libjit_sgd_f"].Gsum[i] = MomentumStep(i)
           /\ kout["libjit_sgd_f"].W[i] = FAdd(kin.W[i], MomentumStep(i))
      ELSE /\ kout["libjit_sgd_f"].Gsum[i] = kin.Gsum[i]
           /\ kout["libjit_sgd_f"].W[i] = FSub(kin.W[i], FMul(kin.learningRate, Gij(i)))

LrnGradRun == ~ub /\ kout.kernel = "libjit_local_response_normalization_grad_f"

\* The channels j with max(0, c - h) <= j <= min(C - 1, c + h).
ClampedWindow(c, h, C) ==
  {j \in 0..(C - 1) : j >= c - h /\ j <= c + h}

\* outG[j] * outW[j] / scale[j] of the element at offset o (from 0).
TermAt(o) ==
  FDiv(FMul(kin.outG[o + 1], kout["libjit_local_response_normalization_f"].outW[o + 1]),
       kout["libjit_local_response_normalization_f"].scaleCache[o + 1])

RECURSIVE FromScratch(_, _)
FromScratch(e, js) ==
  IF js = {} THEN Float(0)
  ELSE LET j == CHOOSE i \in js : TRUE
       IN FAdd(TermAt(libjit_getXYZW(kin.outWdims, e[1], e[2], e[3], j)),
               FromScratch(e, js \ {j}))

\* C22: in libjit_local_response_normalization_grad_f, for every channel count
\* C, every halfWindow h >= 0 (h >= C included) and every channel c, the
\* running sum used for inG at c is the from-scratch sum of
\* outG[j]*outW[j]/scale[j] over exactly the channels j in
\* [max(0, c-h), min(C-1, c+h)], the clamped window of the forward pass.
C22_RunningSumIsWindowSum ==
  LrnGradRun =>
    LET its == Loops(kin.outWdims) IN
    \A j \in 1..Len(its) :
      LET win == ClampedWindow(its[j][4], kin.halfWindow, kin.outWdims[4])
      IN /\ win = ForwardWindow(its[j][4], kin.halfWindow, kin.inWdims[4])
         /\ kout["libjit_local_response_normalization_grad_f"].sum[j] =
              FromScratch(its[j], win)

\* C22 witness: three channels and halfWindow 1, so that a term leaves the
\* window at the last channel, at the second of two positions; the sums of
\* the three channels differ.
C22_WindowSlides ==
  /\ LrnGradRun
  /\ kin.outWdims = <<1, 1, 2, 3>> /\ kin.halfWindow = 1
  /\ kout["libjit_local_response_normalization_grad_f"].sum[4] #
       kout["libjit_local_response_normalization_grad_f"].sum[5]
  /\ kout["libjit_local_response_normalization_grad_f"].sum[5] #
       kout["libjit_local_response_normalization_grad_f"].sum[6]
  /\ kout["libjit_local_response_normalization_grad_f"].sum[6] # Float(0)

\* A second reachable case: halfWindow at least the channel count, the
\* window is every channel at every c.
HalfWindowBeyondChannels ==
  /\ LrnGradRun
  /\ kin.outWdims[4] = 2 /\ kin.halfWindow = 3
  /\ kout["libjit_local_response_normalization_grad_f"].sum[1] # Float(0)
  /\ kout["libjit_local_response_normalization_grad_f"].sum[1] =
       kout["libjit_local_response_normalization_grad_f"].sum[2]

\* C23: onnxGetBackendIDs takes *numBackends on entry as the capacity of
\* backendIDs: with a non-null backendIDs it stores no more IDs than that, so
\* with a capacity of 0 it writes no element of backendIDs and creates no
\* BackendId.
C23_CapacityRespected ==
  (ret.op = "onnxGetBackendIDs" /\ ret.hasNum /\ ret.hasIDs) =>
    /\ ~ret.outOfBounds
    /\ ret.cap = 0 => ret.created = NULL

\* C24: libjit_element_cmp_lte_f computes less-than-or-equal: for every
\* i < numElem it writes 1 to dest[i] when LHS[i] <= RHS[i] (so also when
\* they are equal) and 0 otherwise, and writes nothing at indices >= numElem.
C24_LessThanOrEqual ==
  (~ub /\ kout.kernel = "libjit_element_cmp_lte_f") =>
    \A i \in 1..Len(kin.dest) :
      kout["libjit_element_cmp_lte_f"].dest[i] =
        IF i <= kin.numElem
        THEN (IF kin.LHS[i] <= kin.RHS[i] THEN 1 ELSE 0)
        ELSE kin.dest[i]

====
